---- MODULE Spec2Model ----
(***************************************************************************)
(* Persona chatbot routing pipeline of chatbot_api/server.py:              *)
(* detect_lang -> route_intent -> semantic_answer -> llm_fallback, the     *)
(* callers of answer (the /chat endpoint and the CLI loop), and the        *)
(* process-wide semantic index _sem_vectors.                               *)
(*                                                                         *)
(* Text is a sequence of Unicode code points (Python str).  The character  *)
(* classes below are those of Python 3 str/re for the code points          *)
(* 0..705 and 1024..1279 plus the Unicode white space; every text of the   *)
(* model is drawn from these.                                              *)
(***************************************************************************)
EXTENDS Integers, Sequences, FiniteSets, TLC

\* ---------------------------------------------------------------- text

\* Optional[T]: None is the empty tuple, a value x is <<x>>.
None == <<>>

Some(x) == <<x>>

\* str.isspace / re \s
IsSpace(c) ==
    \/ c \in 9..13
    \/ c \in 28..32
    \/ c \in {133, 160, 5760, 8232, 8233, 8239, 8287, 12288}
    \/ c \in 8192..8202

\* re \w for a str pattern: str.isalnum or "_"
IsWordChar(c) ==
    \/ c \in 48..57
    \/ c \in 65..90
    \/ c = 95
    \/ c \in 97..122
    \/ c \in {170, 178, 179, 181, 185, 186, 188, 189, 190}
    \/ c \in 192..214
    \/ c \in 216..246
    \/ c \in 248..705
    \/ c \in 1024..1153
    \/ c \in 1162..1279

\* str.lower of one character (U+0130 lowers to two code points)
LowerChar(c) ==
    IF c \in 65..90 THEN <<c + 32>>
    ELSE IF c \in 192..214 \/ c \in 216..222 THEN <<c + 32>>
    ELSE IF c = 304 THEN <<105, 775>>
    ELSE IF c = 376 THEN <<255>>
    ELSE IF (c \in 256..303 \/ c \in 306..311 \/ c \in 330..375) /\ c % 2 = 0 THEN <<c + 1>>
    ELSE IF (c \in 313..328 \/ c \in 377..382) /\ c % 2 = 1 THEN <<c + 1>>
    ELSE IF c = 399 THEN <<601>>
    ELSE IF c \in 1024..1039 THEN <<c + 80>>
    ELSE IF c \in 1040..1071 THEN <<c + 32>>
    ELSE <<c>>

RECURSIVE Lower(_)
Lower(t) == IF t = <<>> THEN <<>> ELSE LowerChar(Head(t)) \o Lower(Tail(t))

RECURSIVE LStrip(_)
LStrip(t) == IF t # <<>> /\ IsSpace(Head(t)) THEN LStrip(Tail(t)) ELSE t

RECURSIVE RStrip(_)
RStrip(t) ==
    IF t # <<>> /\ IsSpace(t[Len(t)]) THEN RStrip(SubSeq(t, 1, Len(t) - 1)) ELSE t

\* str.strip()
Strip(t) == RStrip(LStrip(t))

\* re.search(r"[...]", t) for a one-character class
SearchClass(cls(_), t) == \E i \in 1..Len(t) : cls(t[i])

\* re.findall(r"[...]+", t): the maximal runs of characters of the class
FindAllRuns(cls(_), t) ==
    { SubSeq(t, i, j) : <<i, j>> \in
        { p \in (1..Len(t)) \X (1..Len(t)) :
            /\ p[1] <= p[2]
            /\ \A k \in p[1]..p[2] : cls(t[k])
            /\ (p[1] = 1 \/ ~cls(t[p[1] - 1]))
            /\ (p[2] = Len(t) \/ ~cls(t[p[2] + 1])) } }

\* --------------------------------------------------------- detect_lang

AZ_STOPWORDS ==
    { <<98, 101, 108, 601>>,   \* belə
      <<98, 117, 114, 97>>,   \* bura
      <<98, 117, 114, 100, 97>>,   \* burda
      <<100, 97, 110, 305, 351>>,   \* danış
      <<100, 101>>,   \* de
      <<101, 108, 601>>,   \* elə
      <<104, 97, 113, 113, 105, 110, 100, 97>>,   \* haqqinda
      <<104, 97, 113, 113, 305, 110, 100, 97>>,   \* haqqında
      <<104, 97, 114, 97, 100, 97>>,   \* harada
      <<104, 97, 114, 100, 97>>,   \* harda
      <<105, 110, 100, 105>>,   \* indi
      <<109, 101, 110>>,   \* men
      <<109, 601, 110>>,   \* mən
      <<110, 101, 99, 101, 115, 101, 110>>,   \* necesen
      <<110, 101, 99, 601>>,   \* necə
      <<110, 101, 99, 601, 115, 601, 110>>,   \* necəsən
      <<110, 105, 121, 601>>,   \* niyə
      <<110, 601>>,   \* nə
      <<115, 97, 103, 111, 108>>,   \* sagol
      <<115, 97, 108, 97, 109>>,   \* salam
      <<115, 97, 108, 97, 109, 109, 109>>,   \* salammm
      <<115, 97, 287, 111, 108>>,   \* sağol
      <<115, 101, 110>>,   \* sen
      <<115, 601, 110>>,   \* sən
      <<118, 97, 114, 109, 305>>,   \* varmı
      <<118, 97, 114, 115, 97, 110>>,   \* varsan
      <<118, 97, 114, 115, 97, 110, 109, 105>>,   \* varsanmi
      <<121, 97, 122>>,   \* yaz
      <<246, 122, 252, 110, 252>> }   \* özünü

TR_STOPWORDS ==
    { <<97, 110, 108, 97, 116>>,   \* anlat
      <<98, 101, 110>>,   \* ben
      <<98, 117, 114, 97, 100, 97>>,   \* burada
      <<98, 246, 121, 108, 101>>,   \* böyle
      <<101, 100, 101, 114, 105, 109>>,   \* ederim
      <<104, 97, 107, 107, 305, 110, 100, 97>>,   \* hakkında
      <<105, 121, 105, 121, 105, 109>>,   \* iyiyim
      <<107, 105, 109, 100, 105, 114>>,   \* kimdir
      <<109, 101, 114, 104, 97, 98, 97>>,   \* merhaba
      <<109, 105, 115, 105, 110>>,   \* misin
      <<109, 305, 115, 305, 110>>,   \* mısın
      <<110, 97, 115, 305, 108>>,   \* nasıl
      <<110, 97, 115, 305, 108, 115, 305, 110>>,   \* nasılsın
      <<110, 101, 100, 101, 110>>,   \* neden
      <<110, 101, 100, 105, 114>>,   \* nedir
      <<110, 101, 114, 101, 100, 101>>,   \* nerede
      <<115, 101, 108, 97, 109>>,   \* selam
      <<115, 101, 110>>,   \* sen
      <<115, 246, 121, 108, 101>>,   \* söyle
      <<116, 101, 351, 101, 107, 107, 252, 114>>,   \* teşekkür
      <<121, 97, 122>>,   \* yaz
      <<246, 121, 108, 101>>,   \* öyle
      <<351, 105, 109, 100, 105>>,   \* şimdi
      <<351, 117, 114, 97, 100, 97>> }   \* şurada

PL_STOPWORDS ==
    { <<99, 111>>,   \* co
      <<99, 122, 101, 347, 263>>,   \* cześć
      <<99, 122, 121, 109>>,   \* czym
      <<100, 108, 97, 99, 122, 101, 103, 111>>,   \* dlaczego
      <<100, 111, 98, 114, 121>>,   \* dobry
      <<100, 122, 105, 101, 324>>,   \* dzień
      <<100, 122, 105, 281, 107, 117, 106, 281>>,   \* dziękuję
      <<103, 100, 122, 105, 101>>,   \* gdzie
      <<106, 97, 107>>,   \* jak
      <<107, 105, 101, 100, 121>>,   \* kiedy
      <<107, 105, 109>>,   \* kim
      <<110, 97, 112, 105, 115, 122>>,   \* napisz
      <<111>>,   \* o
      <<112, 111, 119, 105, 101, 100, 122>>,   \* powiedz
      <<112, 114, 111, 115, 122, 281>>,   \* proszę
      <<115, 105, 101, 109, 97>>,   \* siema
      <<116, 101, 114, 97, 122>>,   \* teraz
      <<116, 117, 116, 97, 106>> }   \* tutaj

\* [А-Яа-яЁё]
IsRuCyrillic(c) == c \in 1040..1071 \/ c \in 1072..1103 \/ c \in {1025, 1105}

\* [əƏ]
IsAzLetter(c) == c \in {601, 399}

\* [ıİğĞ]
IsTrLetter(c) == c \in {305, 304, 287, 286}

\* [ąĄćĆęĘłŁńŃóÓśŚźŹżŻ]
IsPlLetter(c) ==
    c \in {261, 260, 263, 262, 281, 280, 322, 321, 324, 323,
           243, 211, 347, 346, 378, 377, 380, 379}

\* [a-zA-ZəğıöçşüİıĞğÖöÇçŞşĄąĆćĘęŁłŃńÓóŚśŹźŻż]
IsTokenLetter(c) ==
    \/ c \in 97..122
    \/ c \in 65..90
    \/ c \in {601, 287, 305, 246, 231, 351, 252, 304, 286, 214, 199, 350}
    \/ c \in {260, 261, 262, 263, 280, 281, 321, 322, 323, 324,
              211, 243, 346, 347, 377, 378, 379, 380}

\* [A-Za-z]
IsAsciiLetter(c) == c \in 65..90 \/ c \in 97..122

\* ------------------------------------------------- re patterns (re.search)

\* Pattern nodes of the regular expressions the program compiles.
Lit(s) == [k |-> "lit", s |-> s]

Cat(rs) == [k |-> "cat", rs |-> rs]

Alt(rs) == [k |-> "alt", rs |-> rs]

Opt(r) == [k |-> "opt", r |-> r]

Star(c) == [k |-> "star", c |-> c]

Plus(c) == [k |-> "plus", c |-> c]

\* [...] with literal members
OneOf(cs) == [k |-> "oneof", cs |-> cs]

WordB == [k |-> "wordb"]

EndOfString == [k |-> "eos"]

Space == [k |-> "space"]

AnyChar == [k |-> "any"]

\* A literal character of a pattern against a character of the text.  Under
\* re.IGNORECASE the text character is lowered and the case-equivalent pairs
\* i/U+0131 and s/U+017F of the re module match each other.
CharEq(p, c, icase) ==
    IF icase
    THEN LET l == Head(LowerChar(c))
         IN  l = p \/ {l, p} = {105, 305} \/ {l, p} = {115, 383}
    ELSE p = c

\* One-character nodes: \s and . (which does not match a line feed)
CharMatch(n, c) ==
    IF n.k = "space" THEN IsSpace(c) ELSE c # 10

\* \b at position i (before t[i]): exactly one neighbour is a word character
AtWordB(t, i) ==
    (i > 1 /\ IsWordChar(t[i - 1])) # (i <= Len(t) /\ IsWordChar(t[i]))

RECURSIVE Ends(_, _, _, _), EndsCat(_, _, _, _, _)
\* The positions where a match of node r that starts at position i can end
\* (the position of the next unread character).
Ends(r, t, i, icase) ==
    CASE r.k = "lit" ->
           IF /\ i + Len(r.s) - 1 <= Len(t)
              /\ \A n \in 1..Len(r.s) : CharEq(r.s[n], t[i + n - 1], icase)
           THEN {i + Len(r.s)} ELSE {}
      [] r.k = "oneof" ->
           IF i <= Len(t) /\ \E p \in r.cs : CharEq(p, t[i], icase)
           THEN {i + 1} ELSE {}
      [] r.k = "cat" -> EndsCat(r.rs, 1, t, {i}, icase)
      [] r.k = "alt" ->
           UNION { Ends(r.rs[n], t, i, icase) : n \in 1..Len(r.rs) }
      [] r.k = "opt" -> {i} \cup Ends(r.r, t, i, icase)
      [] r.k = "star" ->
           { j \in i..(Len(t) + 1) : \A n \in i..(j - 1) : CharMatch(r.c, t[n]) }
      [] r.k = "plus" ->
           { j \in (i + 1)..(Len(t) + 1) : \A n \in i..(j - 1) : CharMatch(r.c, t[n]) }
      [] r.k = "wordb" -> IF AtWordB(t, i) THEN {i} ELSE {}
      [] r.k = "eos" ->
           IF i = Len(t) + 1 \/ (i = Len(t) /\ t[i] = 10) THEN {i} ELSE {}

EndsCat(rs, n, t, from, icase) ==
    IF n > Len(rs) \/ from = {} THEN from
    ELSE EndsCat(rs, n + 1, t, UNION { Ends(rs[n], t, i, icase) : i \in from }, icase)

\* pattern.search(t) is not None
Search(r, t, icase) == \E i \in 1..(Len(t) + 1) : Ends(r, t, i, icase) # {}

\* --------------------------------------------------------- detect_lang

\* \b(what|who|why|how|where|when|which|can|do|tell|about|please)\b
EN_MARKERS ==
    Cat(<<WordB,
          Alt(<<Lit(<<119, 104, 97, 116>>),
                Lit(<<119, 104, 111>>),
                Lit(<<119, 104, 121>>),
                Lit(<<104, 111, 119>>),
                Lit(<<119, 104, 101, 114, 101>>),
                Lit(<<119, 104, 101, 110>>),
                Lit(<<119, 104, 105, 99, 104>>),
                Lit(<<99, 97, 110>>),
                Lit(<<100, 111>>),
                Lit(<<116, 101, 108, 108>>),
                Lit(<<97, 98, 111, 117, 116>>),
                Lit(<<112, 108, 101, 97, 115, 101>>)>>),
          WordB>>)

LANGS == {"az", "tr", "pl", "ru", "en"}

\* detect_lang with the Turkish letters tested before the schwa
detect_lang_TrFirst(text) ==
    LET t == Strip(text)
        tl == Lower(t)
        toks == FindAllRuns(IsTokenLetter, tl)
    IN  IF SearchClass(IsRuCyrillic, t) THEN "ru"
        ELSE IF SearchClass(IsTrLetter, t) THEN "tr"
        ELSE IF SearchClass(IsAzLetter, t) THEN "az"
        ELSE IF SearchClass(IsPlLetter, t) THEN "pl"
        ELSE IF \E tok \in toks : tok \in AZ_STOPWORDS THEN "az"
        ELSE IF \E tok \in toks : tok \in TR_STOPWORDS THEN "tr"
        ELSE IF \E tok \in toks : tok \in PL_STOPWORDS THEN "pl"
        ELSE "en"

\* detect_lang with az as the value of the last return
detect_lang_DefaultAz(text) ==
    LET t == Strip(text)
        tl == Lower(t)
        toks == FindAllRuns(IsTokenLetter, tl)
    IN  IF SearchClass(IsRuCyrillic, t) THEN "ru"
        ELSE IF SearchClass(IsAzLetter, t) THEN "az"
        ELSE IF SearchClass(IsTrLetter, t) THEN "tr"
        ELSE IF SearchClass(IsPlLetter, t) THEN "pl"
        ELSE IF \E tok \in toks : tok \in AZ_STOPWORDS THEN "az"
        ELSE IF \E tok \in toks : tok \in TR_STOPWORDS THEN "tr"
        ELSE IF \E tok \in toks : tok \in PL_STOPWORDS THEN "pl"
        ELSE IF SearchClass(IsAsciiLetter, t)
             THEN IF Search(EN_MARKERS, tl, FALSE) THEN "en" ELSE "en"
        ELSE "az"

detect_lang(text) ==
    LET t == Strip(text)
        tl == Lower(t)
        toks == FindAllRuns(IsTokenLetter, tl)
    IN  IF SearchClass(IsRuCyrillic, t) THEN "ru"
        ELSE IF SearchClass(IsAzLetter, t) THEN "az"
        ELSE IF SearchClass(IsTrLetter, t) THEN "tr"
        ELSE IF SearchClass(IsPlLetter, t) THEN "pl"
        ELSE IF \E tok \in toks : tok \in AZ_STOPWORDS THEN "az"
        ELSE IF \E tok \in toks : tok \in TR_STOPWORDS THEN "tr"
        ELSE IF \E tok \in toks : tok \in PL_STOPWORDS THEN "pl"
        ELSE IF SearchClass(IsAsciiLetter, t)
             THEN IF Search(EN_MARKERS, tl, FALSE) THEN "en" ELSE "en"
        ELSE "en"

\* ------------------------------------------------------- persona facts (ELVIN)

\* ELVIN['age'] = 23
ELVIN_age ==
    <<50, 51>>

\* ELVIN['birthday'] = 2002-05-28
ELVIN_birthday ==
    <<50, 48, 48, 50, 45, 48, 53, 45, 50, 56>>

\* ELVIN['born_city'] = Bakı, Azərbaycan
ELVIN_born_city ==
    <<66, 97, 107, 305, 44, 32, 65, 122, 601, 114, 98, 97, 121, 99, 97, 110>>

\* ELVIN['housing'] = Mərkəzə yaxın iki mərtəbəli kirayə evdə yaşayıram.
ELVIN_housing ==
    <<77, 601, 114, 107, 601, 122, 601, 32, 121, 97, 120, 305, 110, 32, 105, 107, 105, 32,
    109, 601, 114, 116, 601, 98, 601, 108, 105, 32, 107, 105, 114, 97, 121, 601, 32, 101,
    118, 100, 601, 32, 121, 97, 351, 97, 121, 305, 114, 97, 109, 46>>

\* ELVIN['email'] = elvinbabanli0@gmail.com
ELVIN_email ==
    <<101, 108, 118, 105, 110, 98, 97, 98, 97, 110, 108, 105, 48, 64, 103, 109, 97, 105,
    108, 46, 99, 111, 109>>

\* ELVIN['family']['mother'] = Mehriban Qədimova
ELVIN_family_mother ==
    <<77, 101, 104, 114, 105, 98, 97, 110, 32, 81, 601, 100, 105, 109, 111, 118, 97>>

\* ELVIN['family']['father'] = Natiq Babanlı
ELVIN_family_father ==
    <<78, 97, 116, 105, 113, 32, 66, 97, 98, 97, 110, 108, 305>>

\* ELVIN['family']['brother'] = Farid Babanlı
ELVIN_family_brother ==
    <<70, 97, 114, 105, 100, 32, 66, 97, 98, 97, 110, 108, 305>>

\* ELVIN['family']['sister'] = Fidan Babanlı
ELVIN_family_sister ==
    <<70, 105, 100, 97, 110, 32, 66, 97, 98, 97, 110, 108, 305>>

\* ELVIN['love']['about'] = İlk ciddi hisslərim Banuya olub. Onu həqiqətən çox sevdim; məndə həm zəiflik, həm də güc oyadan bir hiss idi. Hörmətlə yanaşdım, O məndə iz qoydu və məni həyatla daha möhkəm bağladı.Hər zaman onu sevməyə davam edəcəm.
ELVIN_love_about ==
    <<304, 108, 107, 32, 99, 105, 100, 100, 105, 32, 104, 105, 115, 115, 108, 601, 114, 105,
    109, 32, 66, 97, 110, 117, 121, 97, 32, 111, 108, 117, 98, 46, 32, 79, 110, 117, 32,
    104, 601, 113, 105, 113, 601, 116, 601, 110, 32, 231, 111, 120, 32, 115, 101, 118, 100,
    105, 109, 59, 32, 109, 601, 110, 100, 601, 32, 104, 601, 109, 32, 122, 601, 105, 102,
    108, 105, 107, 44, 32, 104, 601, 109, 32, 100, 601, 32, 103, 252, 99, 32, 111, 121, 97,
    100, 97, 110, 32, 98, 105, 114, 32, 104, 105, 115, 115, 32, 105, 100, 105, 46, 32, 72,
    246, 114, 109, 601, 116, 108, 601, 32, 121, 97, 110, 97, 351, 100, 305, 109, 44, 32, 79,
    32, 109, 601, 110, 100, 601, 32, 105, 122, 32, 113, 111, 121, 100, 117, 32, 118, 601,
    32, 109, 601, 110, 105, 32, 104, 601, 121, 97, 116, 108, 97, 32, 100, 97, 104, 97, 32,
    109, 246, 104, 107, 601, 109, 32, 98, 97, 287, 108, 97, 100, 305, 46, 72, 601, 114, 32,
    122, 97, 109, 97, 110, 32, 111, 110, 117, 32, 115, 101, 118, 109, 601, 121, 601, 32,
    100, 97, 118, 97, 109, 32, 101, 100, 601, 99, 601, 109, 46>>

\* -------------------------------------------------------------- route_intent

\* programming_langs: \b(proqram(lama)?\s*dilləri|programming\s*languages|coding\s*languages|tech\s*stack|stack)\b
PAT_programming_langs ==
    Cat(<<WordB,
          Alt(<<Cat(<<Lit(<<112, 114, 111, 113, 114, 97, 109>>),
                      Opt(Lit(<<108, 97, 109, 97>>)),
                      Star(Space),
                      Lit(<<100, 105, 108, 108, 601, 114, 105>>)>>),
                Cat(<<Lit(<<112, 114, 111, 103, 114, 97, 109, 109, 105, 110, 103>>),
                      Star(Space),
                      Lit(<<108, 97, 110, 103, 117, 97, 103, 101, 115>>)>>),
                Cat(<<Lit(<<99, 111, 100, 105, 110, 103>>),
                      Star(Space),
                      Lit(<<108, 97, 110, 103, 117, 97, 103, 101, 115>>)>>),
                Cat(<<Lit(<<116, 101, 99, 104>>),
                      Star(Space),
                      Lit(<<115, 116, 97, 99, 107>>)>>),
                Lit(<<115, 116, 97, 99, 107>>)>>),
          WordB>>)

\* spoken_langs: \b(dil bilikləri|hansı dill(ə|)rd[əə]\s*danışırsan|languages (you )?speak|hans(ı|i) dill(ə|)r)\b
PAT_spoken_langs ==
    Cat(<<WordB,
          Alt(<<Lit(<<100, 105, 108, 32, 98, 105, 108, 105, 107, 108, 601, 114, 105>>),
                Cat(<<Lit(<<104, 97, 110, 115, 305, 32, 100, 105, 108, 108>>),
                      Alt(<<Lit(<<601>>), Lit(<<>>)>>),
                      Lit(<<114, 100, 601>>),
                      Star(Space),
                      Lit(<<100, 97, 110, 305, 351, 305, 114, 115, 97, 110>>)>>),
                Cat(<<Lit(<<108, 97, 110, 103, 117, 97, 103, 101, 115, 32>>),
                      Opt(Lit(<<121, 111, 117, 32>>)),
                      Lit(<<115, 112, 101, 97, 107>>)>>),
                Cat(<<Lit(<<104, 97, 110, 115>>),
                      OneOf({305, 105}),
                      Lit(<<32, 100, 105, 108, 108>>),
                      Alt(<<Lit(<<601>>), Lit(<<>>)>>),
                      Lit(<<114>>)>>)>>),
          WordB>>)

\* where_live_house: \b(necə|nə cür)\s+bir\s+ev(d|)ə\b|\bev(in)? nec(ə|ədir)\b
PAT_where_live_house ==
    Cat(<<WordB,
          Alt(<<Cat(<<Cat(<<Lit(<<110>>),
                            Alt(<<Lit(<<101, 99, 601>>), Lit(<<601, 32, 99, 252, 114>>)>>)>>),
                      Plus(Space),
                      Lit(<<98, 105, 114>>),
                      Plus(Space),
                      Lit(<<101, 118>>),
                      Alt(<<Lit(<<100>>), Lit(<<>>)>>),
                      Lit(<<601>>),
                      WordB>>),
                Cat(<<Lit(<<101, 118>>),
                      Opt(Lit(<<105, 110>>)),
                      Lit(<<32, 110, 101, 99>>),
                      Cat(<<Lit(<<601>>), Alt(<<Lit(<<>>), Lit(<<100, 105, 114>>)>>)>>),
                      WordB>>)>>)>>)

\* where_live: \bharada\b.*\byaşay(ırsan|ıram)\b|\byaşayış yeri(n)?\b|\biqamət\b|where do you live\b
PAT_where_live ==
    Alt(<<Cat(<<WordB,
                Lit(<<104, 97, 114, 97, 100, 97>>),
                WordB,
                Star(AnyChar),
                WordB,
                Lit(<<121, 97, 351, 97, 121>>),
                Cat(<<Lit(<<305, 114>>), Alt(<<Lit(<<115, 97, 110>>), Lit(<<97, 109>>)>>)>>),
                WordB>>),
          Cat(<<WordB,
                Lit(<<121, 97, 351, 97, 121, 305, 351, 32, 121, 101, 114, 105>>),
                Opt(Lit(<<110>>)),
                WordB>>),
          Cat(<<WordB, Lit(<<105, 113, 97, 109, 601, 116>>), WordB>>),
          Cat(<<Lit(<<119, 104, 101, 114, 101, 32, 100, 111, 32, 121, 111, 117, 32, 108, 105, 118, 101>>),
                WordB>>)>>)

\* born_where: \bharada\b.*\b(doğul(ub|musan|dun))\b|\bdoğum yeri\b|\bdoğulduğun (yer|şəhər)\b|born (in|where)\b
PAT_born_where ==
    Alt(<<Cat(<<WordB,
                Lit(<<104, 97, 114, 97, 100, 97>>),
                WordB,
                Star(AnyChar),
                WordB,
                Cat(<<Lit(<<100, 111, 287, 117, 108>>),
                      Alt(<<Lit(<<117, 98>>),
                            Lit(<<109, 117, 115, 97, 110>>),
                            Lit(<<100, 117, 110>>)>>)>>),
                WordB>>),
          Cat(<<WordB, Lit(<<100, 111, 287, 117, 109, 32, 121, 101, 114, 105>>), WordB>>),
          Cat(<<WordB,
                Lit(<<100, 111, 287, 117, 108, 100, 117, 287, 117, 110, 32>>),
                Alt(<<Lit(<<121, 101, 114>>), Lit(<<351, 601, 104, 601, 114>>)>>),
                WordB>>),
          Cat(<<Lit(<<98, 111, 114, 110, 32>>),
                Alt(<<Lit(<<105, 110>>), Lit(<<119, 104, 101, 114, 101>>)>>),
                WordB>>)>>)

\* age: \bneçə\s+yaş(ın|ı)?\b|\byaş(ın|ı)?\s*neçə\b|\byaş(ın|ı)?\b\??$|how old are you\b
PAT_age ==
    Alt(<<Cat(<<WordB,
                Lit(<<110, 101, 231, 601>>),
                Plus(Space),
                Lit(<<121, 97, 351>>),
                Opt(Cat(<<Lit(<<305>>), Alt(<<Lit(<<110>>), Lit(<<>>)>>)>>)),
                WordB>>),
          Cat(<<WordB,
                Lit(<<121, 97, 351>>),
                Opt(Cat(<<Lit(<<305>>), Alt(<<Lit(<<110>>), Lit(<<>>)>>)>>)),
                Star(Space),
                Lit(<<110, 101, 231, 601>>),
                WordB>>),
          Cat(<<WordB,
                Lit(<<121, 97, 351>>),
                Opt(Cat(<<Lit(<<305>>), Alt(<<Lit(<<110>>), Lit(<<>>)>>)>>)),
                WordB,
                Opt(Lit(<<63>>)),
                EndOfString>>),
          Cat(<<Lit(<<104, 111, 119, 32, 111, 108, 100, 32, 97, 114, 101, 32, 121, 111, 117>>),
                WordB>>)>>)

\* who_are_you: \bsən kimsən\b|\bözünü tanıt\b|who are you|introduce yourself|about you
PAT_who_are_you ==
    Alt(<<Cat(<<WordB, Lit(<<115, 601, 110, 32, 107, 105, 109, 115, 601, 110>>), WordB>>),
          Cat(<<WordB,
                Lit(<<246, 122, 252, 110, 252, 32, 116, 97, 110, 305, 116>>),
                WordB>>),
          Lit(<<119, 104, 111, 32, 97, 114, 101, 32, 121, 111, 117>>),
          Lit(<<105, 110, 116, 114, 111, 100, 117, 99, 101, 32, 121, 111, 117, 114, 115, 101, 108, 102>>),
          Lit(<<97, 98, 111, 117, 116, 32, 121, 111, 117>>)>>)

\* why_hire: (niyə|nəyə görə).*(işə al|hire you|təklif|qəbul)|why should (we|i) hire you
PAT_why_hire ==
    Alt(<<Cat(<<Cat(<<Lit(<<110>>),
                      Alt(<<Lit(<<105, 121, 601>>),
                            Lit(<<601, 121, 601, 32, 103, 246, 114, 601>>)>>)>>),
                Star(AnyChar),
                Alt(<<Lit(<<105, 351, 601, 32, 97, 108>>),
                      Lit(<<104, 105, 114, 101, 32, 121, 111, 117>>),
                      Lit(<<116, 601, 107, 108, 105, 102>>),
                      Lit(<<113, 601, 98, 117, 108>>)>>)>>),
          Cat(<<Lit(<<119, 104, 121, 32, 115, 104, 111, 117, 108, 100, 32>>),
                Alt(<<Lit(<<119, 101>>), Lit(<<105>>)>>),
                Lit(<<32, 104, 105, 114, 101, 32, 121, 111, 117>>)>>)>>)

\* family: \b(ailə|family)\b|\batan(ın)? adı\b|\banan(ın)? adı\b|\bqardaş\b|\bbacı\b
PAT_family ==
    Cat(<<WordB,
          Alt(<<Cat(<<Alt(<<Lit(<<97, 105, 108, 601>>),
                            Lit(<<102, 97, 109, 105, 108, 121>>)>>),
                      WordB>>),
                Cat(<<Lit(<<97, 116, 97, 110>>),
                      Opt(Lit(<<305, 110>>)),
                      Lit(<<32, 97, 100, 305>>),
                      WordB>>),
                Cat(<<Lit(<<97, 110, 97, 110>>),
                      Opt(Lit(<<305, 110>>)),
                      Lit(<<32, 97, 100, 305>>),
                      WordB>>),
                Cat(<<Lit(<<113, 97, 114, 100, 97, 351>>), WordB>>),
                Cat(<<Lit(<<98, 97, 99, 305>>), WordB>>)>>)>>)

\* love_banu: \b(banu|sevg(il|)i|girlfriend|qız dost(un|)|love life)\b
PAT_love_banu ==
    Cat(<<WordB,
          Alt(<<Lit(<<98, 97, 110, 117>>),
                Cat(<<Lit(<<115, 101, 118, 103>>),
                      Alt(<<Lit(<<105, 108>>), Lit(<<>>)>>),
                      Lit(<<105>>)>>),
                Lit(<<103, 105, 114, 108, 102, 114, 105, 101, 110, 100>>),
                Cat(<<Lit(<<113, 305, 122, 32, 100, 111, 115, 116>>),
                      Alt(<<Lit(<<117, 110>>), Lit(<<>>)>>)>>),
                Lit(<<108, 111, 118, 101, 32, 108, 105, 102, 101>>)>>),
          WordB>>)

\* projects: \b(layih(ə|)lər|projects|portfolio|nələr etmisən|nə üzərində işləmisən)\b
PAT_projects ==
    Cat(<<WordB,
          Alt(<<Cat(<<Lit(<<108, 97, 121, 105, 104>>),
                      Alt(<<Lit(<<601>>), Lit(<<>>)>>),
                      Lit(<<108, 601, 114>>)>>),
                Lit(<<112, 114, 111, 106, 101, 99, 116, 115>>),
                Lit(<<112, 111, 114, 116, 102, 111, 108, 105, 111>>),
                Lit(<<110, 601, 108, 601, 114, 32, 101, 116, 109, 105, 115, 601, 110>>),
                Lit(<<110, 601, 32, 252, 122, 601, 114, 105, 110, 100, 601, 32, 105, 351, 108, 601, 109, 105, 115, 601, 110>>)>>),
          WordB>>)

\* email_contact: \b(email|e-poçt|contact|əlaqə)\b
PAT_email_contact ==
    Cat(<<WordB,
          Alt(<<Lit(<<101, 109, 97, 105, 108>>),
                Lit(<<101, 45, 112, 111, 231, 116>>),
                Lit(<<99, 111, 110, 116, 97, 99, 116>>),
                Lit(<<601, 108, 97, 113, 601>>)>>),
          WordB>>)

\* today_date: \b(bu gün ayın neçəsidir|bugün tarih|what(?:')?s the date|what day is it)\b
PAT_today_date ==
    Cat(<<WordB,
          Alt(<<Lit(<<98, 117, 32, 103, 252, 110, 32, 97, 121, 305, 110, 32, 110, 101, 231, 601, 115, 105, 100, 105, 114>>),
                Lit(<<98, 117, 103, 252, 110, 32, 116, 97, 114, 105, 104>>),
                Cat(<<Lit(<<119, 104, 97, 116>>),
                      Opt(Lit(<<39>>)),
                      Lit(<<115, 32, 116, 104, 101, 32, 100, 97, 116, 101>>)>>),
                Lit(<<119, 104, 97, 116, 32, 100, 97, 121, 32, 105, 115, 32, 105, 116>>)>>),
          WordB>>)

\* time_now: \b(indi saat neçədir|current time|what time is it)\b
PAT_time_now ==
    Cat(<<WordB,
          Alt(<<Lit(<<105, 110, 100, 105, 32, 115, 97, 97, 116, 32, 110, 101, 231, 601, 100, 105, 114>>),
                Lit(<<99, 117, 114, 114, 101, 110, 116, 32, 116, 105, 109, 101>>),
                Lit(<<119, 104, 97, 116, 32, 116, 105, 109, 101, 32, 105, 115, 32, 105, 116>>)>>),
          WordB>>)

\* INTENTS, in list order
INTENTS ==
    <<[name |-> "programming_langs", pattern |-> PAT_programming_langs],
      [name |-> "spoken_langs", pattern |-> PAT_spoken_langs],
      [name |-> "where_live_house", pattern |-> PAT_where_live_house],
      [name |-> "where_live", pattern |-> PAT_where_live],
      [name |-> "born_where", pattern |-> PAT_born_where],
      [name |-> "age", pattern |-> PAT_age],
      [name |-> "who_are_you", pattern |-> PAT_who_are_you],
      [name |-> "why_hire", pattern |-> PAT_why_hire],
      [name |-> "family", pattern |-> PAT_family],
      [name |-> "love_banu", pattern |-> PAT_love_banu],
      [name |-> "projects", pattern |-> PAT_projects],
      [name |-> "email_contact", pattern |-> PAT_email_contact],
      [name |-> "today_date", pattern |-> PAT_today_date],
      [name |-> "time_now", pattern |-> PAT_time_now]>>

\* the responses of intent programming_langs, by language
RESP_programming_langs ==
      \* az: Əsasən Python (FastAPI, Django, Flask) və MongoDB ilə işləyirəm; həm də JavaScript, React və Electron təcrübəm var. TensorFlow və OpenCV ilə layihələr etmişəm.
    [ az |-> <<399, 115, 97, 115, 601, 110, 32, 80, 121, 116, 104, 111, 110, 32, 40, 70,
              97, 115, 116, 65, 80, 73, 44, 32, 68, 106, 97, 110, 103, 111, 44, 32, 70, 108,
              97, 115, 107, 41, 32, 118, 601, 32, 77, 111, 110, 103, 111, 68, 66, 32, 105,
              108, 601, 32, 105, 351, 108, 601, 121, 105, 114, 601, 109, 59, 32, 104, 601,
              109, 32, 100, 601, 32, 74, 97, 118, 97, 83, 99, 114, 105, 112, 116, 44, 32,
              82, 101, 97, 99, 116, 32, 118, 601, 32, 69, 108, 101, 99, 116, 114, 111, 110,
              32, 116, 601, 99, 114, 252, 98, 601, 109, 32, 118, 97, 114, 46, 32, 84, 101,
              110, 115, 111, 114, 70, 108, 111, 119, 32, 118, 601, 32, 79, 112, 101, 110,
              67, 86, 32, 105, 108, 601, 32, 108, 97, 121, 105, 104, 601, 108, 601, 114, 32,
              101, 116, 109, 105, 351, 601, 109, 46>>,
      \* en: Mainly Python (FastAPI, Django, Flask) and MongoDB; I also work with JavaScript, React, and Electron. I’ve done projects with TensorFlow and OpenCV.
      en |-> <<77, 97, 105, 110, 108, 121, 32, 80, 121, 116, 104, 111, 110, 32, 40, 70, 97,
              115, 116, 65, 80, 73, 44, 32, 68, 106, 97, 110, 103, 111, 44, 32, 70, 108, 97,
              115, 107, 41, 32, 97, 110, 100, 32, 77, 111, 110, 103, 111, 68, 66, 59, 32,
              73, 32, 97, 108, 115, 111, 32, 119, 111, 114, 107, 32, 119, 105, 116, 104, 32,
              74, 97, 118, 97, 83, 99, 114, 105, 112, 116, 44, 32, 82, 101, 97, 99, 116, 44,
              32, 97, 110, 100, 32, 69, 108, 101, 99, 116, 114, 111, 110, 46, 32, 73, 8217,
              118, 101, 32, 100, 111, 110, 101, 32, 112, 114, 111, 106, 101, 99, 116, 115,
              32, 119, 105, 116, 104, 32, 84, 101, 110, 115, 111, 114, 70, 108, 111, 119,
              32, 97, 110, 100, 32, 79, 112, 101, 110, 67, 86, 46>>,
      \* ru: В основном работаю с Python (FastAPI, Django, Flask) и MongoDB; также использую JavaScript, React и Electron. Делал проекты с TensorFlow и OpenCV.
      ru |-> <<1042, 32, 1086, 1089, 1085, 1086, 1074, 1085, 1086, 1084, 32, 1088, 1072,
              1073, 1086, 1090, 1072, 1102, 32, 1089, 32, 80, 121, 116, 104, 111, 110, 32,
              40, 70, 97, 115, 116, 65, 80, 73, 44, 32, 68, 106, 97, 110, 103, 111, 44, 32,
              70, 108, 97, 115, 107, 41, 32, 1080, 32, 77, 111, 110, 103, 111, 68, 66, 59,
              32, 1090, 1072, 1082, 1078, 1077, 32, 1080, 1089, 1087, 1086, 1083, 1100,
              1079, 1091, 1102, 32, 74, 97, 118, 97, 83, 99, 114, 105, 112, 116, 44, 32, 82,
              101, 97, 99, 116, 32, 1080, 32, 69, 108, 101, 99, 116, 114, 111, 110, 46, 32,
              1044, 1077, 1083, 1072, 1083, 32, 1087, 1088, 1086, 1077, 1082, 1090, 1099,
              32, 1089, 32, 84, 101, 110, 115, 111, 114, 70, 108, 111, 119, 32, 1080, 32,
              79, 112, 101, 110, 67, 86, 46>>,
      \* tr: Ağırlıklı olarak Python (FastAPI, Django, Flask) ve MongoDB ile çalışıyorum; ayrıca JavaScript, React ve Electron deneyimim var. TensorFlow ve OpenCV projeleri yaptım.
      tr |-> <<65, 287, 305, 114, 108, 305, 107, 108, 305, 32, 111, 108, 97, 114, 97, 107,
              32, 80, 121, 116, 104, 111, 110, 32, 40, 70, 97, 115, 116, 65, 80, 73, 44, 32,
              68, 106, 97, 110, 103, 111, 44, 32, 70, 108, 97, 115, 107, 41, 32, 118, 101,
              32, 77, 111, 110, 103, 111, 68, 66, 32, 105, 108, 101, 32, 231, 97, 108, 305,
              351, 305, 121, 111, 114, 117, 109, 59, 32, 97, 121, 114, 305, 99, 97, 32, 74,
              97, 118, 97, 83, 99, 114, 105, 112, 116, 44, 32, 82, 101, 97, 99, 116, 32,
              118, 101, 32, 69, 108, 101, 99, 116, 114, 111, 110, 32, 100, 101, 110, 101,
              121, 105, 109, 105, 109, 32, 118, 97, 114, 46, 32, 84, 101, 110, 115, 111,
              114, 70, 108, 111, 119, 32, 118, 101, 32, 79, 112, 101, 110, 67, 86, 32, 112,
              114, 111, 106, 101, 108, 101, 114, 105, 32, 121, 97, 112, 116, 305, 109, 46>>,
      \* pl: Głównie pracuję z Pythonem (FastAPI, Django, Flask) i MongoDB; używam też JavaScriptu, Reacta i Electrona. Robiłem projekty z TensorFlow i OpenCV.
      pl |-> <<71, 322, 243, 119, 110, 105, 101, 32, 112, 114, 97, 99, 117, 106, 281, 32,
              122, 32, 80, 121, 116, 104, 111, 110, 101, 109, 32, 40, 70, 97, 115, 116, 65,
              80, 73, 44, 32, 68, 106, 97, 110, 103, 111, 44, 32, 70, 108, 97, 115, 107, 41,
              32, 105, 32, 77, 111, 110, 103, 111, 68, 66, 59, 32, 117, 380, 121, 119, 97,
              109, 32, 116, 101, 380, 32, 74, 97, 118, 97, 83, 99, 114, 105, 112, 116, 117,
              44, 32, 82, 101, 97, 99, 116, 97, 32, 105, 32, 69, 108, 101, 99, 116, 114,
              111, 110, 97, 46, 32, 82, 111, 98, 105, 322, 101, 109, 32, 112, 114, 111, 106,
              101, 107, 116, 121, 32, 122, 32, 84, 101, 110, 115, 111, 114, 70, 108, 111,
              119, 32, 105, 32, 79, 112, 101, 110, 67, 86, 46>> ]

\* the responses of intent spoken_langs, by language
RESP_spoken_langs ==
      \* az: Azərbaycanca və türkcə sərbəst danışıram; ingilis və rus orta səviyyədədir; bir az da polyakca bilirəm.
    [ az |-> <<65, 122, 601, 114, 98, 97, 121, 99, 97, 110, 99, 97, 32, 118, 601, 32, 116,
              252, 114, 107, 99, 601, 32, 115, 601, 114, 98, 601, 115, 116, 32, 100, 97,
              110, 305, 351, 305, 114, 97, 109, 59, 32, 105, 110, 103, 105, 108, 105, 115,
              32, 118, 601, 32, 114, 117, 115, 32, 111, 114, 116, 97, 32, 115, 601, 118,
              105, 121, 121, 601, 100, 601, 100, 105, 114, 59, 32, 98, 105, 114, 32, 97,
              122, 32, 100, 97, 32, 112, 111, 108, 121, 97, 107, 99, 97, 32, 98, 105, 108,
              105, 114, 601, 109, 46>>,
      \* en: I speak Azerbaijani and Turkish fluently; English and Russian at an intermediate level; a bit of Polish.
      en |-> <<73, 32, 115, 112, 101, 97, 107, 32, 65, 122, 101, 114, 98, 97, 105, 106, 97,
              110, 105, 32, 97, 110, 100, 32, 84, 117, 114, 107, 105, 115, 104, 32, 102,
              108, 117, 101, 110, 116, 108, 121, 59, 32, 69, 110, 103, 108, 105, 115, 104,
              32, 97, 110, 100, 32, 82, 117, 115, 115, 105, 97, 110, 32, 97, 116, 32, 97,
              110, 32, 105, 110, 116, 101, 114, 109, 101, 100, 105, 97, 116, 101, 32, 108,
              101, 118, 101, 108, 59, 32, 97, 32, 98, 105, 116, 32, 111, 102, 32, 80, 111,
              108, 105, 115, 104, 46>>,
      \* ru: Свободно говорю на азербайджанском и турецком; английский и русский — средний уровень; немного польский.
      ru |-> <<1057, 1074, 1086, 1073, 1086, 1076, 1085, 1086, 32, 1075, 1086, 1074, 1086,
              1088, 1102, 32, 1085, 1072, 32, 1072, 1079, 1077, 1088, 1073, 1072, 1081,
              1076, 1078, 1072, 1085, 1089, 1082, 1086, 1084, 32, 1080, 32, 1090, 1091,
              1088, 1077, 1094, 1082, 1086, 1084, 59, 32, 1072, 1085, 1075, 1083, 1080,
              1081, 1089, 1082, 1080, 1081, 32, 1080, 32, 1088, 1091, 1089, 1089, 1082,
              1080, 1081, 32, 8212, 32, 1089, 1088, 1077, 1076, 1085, 1080, 1081, 32, 1091,
              1088, 1086, 1074, 1077, 1085, 1100, 59, 32, 1085, 1077, 1084, 1085, 1086,
              1075, 1086, 32, 1087, 1086, 1083, 1100, 1089, 1082, 1080, 1081, 46>>,
      \* tr: Azerbaycanca ve Türkçeyi akıcı konuşurum; İngilizce ve Rusçam orta seviyede; biraz da Lehçe biliyorum.
      tr |-> <<65, 122, 101, 114, 98, 97, 121, 99, 97, 110, 99, 97, 32, 118, 101, 32, 84,
              252, 114, 107, 231, 101, 121, 105, 32, 97, 107, 305, 99, 305, 32, 107, 111,
              110, 117, 351, 117, 114, 117, 109, 59, 32, 304, 110, 103, 105, 108, 105, 122,
              99, 101, 32, 118, 101, 32, 82, 117, 115, 231, 97, 109, 32, 111, 114, 116, 97,
              32, 115, 101, 118, 105, 121, 101, 100, 101, 59, 32, 98, 105, 114, 97, 122, 32,
              100, 97, 32, 76, 101, 104, 231, 101, 32, 98, 105, 108, 105, 121, 111, 114,
              117, 109, 46>>,
      \* pl: Biegle mówię po azersku i turecku; angielski i rosyjski mam na poziomie średnim; trochę po polsku.
      pl |-> <<66, 105, 101, 103, 108, 101, 32, 109, 243, 119, 105, 281, 32, 112, 111, 32,
              97, 122, 101, 114, 115, 107, 117, 32, 105, 32, 116, 117, 114, 101, 99, 107,
              117, 59, 32, 97, 110, 103, 105, 101, 108, 115, 107, 105, 32, 105, 32, 114,
              111, 115, 121, 106, 115, 107, 105, 32, 109, 97, 109, 32, 110, 97, 32, 112,
              111, 122, 105, 111, 109, 105, 101, 32, 347, 114, 101, 100, 110, 105, 109, 59,
              32, 116, 114, 111, 99, 104, 281, 32, 112, 111, 32, 112, 111, 108, 115, 107,
              117, 46>> ]

\* the responses of intent where_live_house, by language
RESP_where_live_house ==
      \* az: İki mərtəbəli kirayə evdə yaşayıram; mərkəzə yaxındır və rahatdır.
    [ az |-> <<304, 107, 105, 32, 109, 601, 114, 116, 601, 98, 601, 108, 105, 32, 107, 105,
              114, 97, 121, 601, 32, 101, 118, 100, 601, 32, 121, 97, 351, 97, 121, 305,
              114, 97, 109, 59, 32, 109, 601, 114, 107, 601, 122, 601, 32, 121, 97, 120,
              305, 110, 100, 305, 114, 32, 118, 601, 32, 114, 97, 104, 97, 116, 100, 305,
              114, 46>>,
      \* en: I live in a two-story rented house near the city center; it’s comfortable.
      en |-> <<73, 32, 108, 105, 118, 101, 32, 105, 110, 32, 97, 32, 116, 119, 111, 45,
              115, 116, 111, 114, 121, 32, 114, 101, 110, 116, 101, 100, 32, 104, 111, 117,
              115, 101, 32, 110, 101, 97, 114, 32, 116, 104, 101, 32, 99, 105, 116, 121, 32,
              99, 101, 110, 116, 101, 114, 59, 32, 105, 116, 8217, 115, 32, 99, 111, 109,
              102, 111, 114, 116, 97, 98, 108, 101, 46>>,
      \* ru: Живу в двухэтажном арендованном доме недалеко от центра; мне удобно.
      ru |-> <<1046, 1080, 1074, 1091, 32, 1074, 32, 1076, 1074, 1091, 1093, 1101, 1090,
              1072, 1078, 1085, 1086, 1084, 32, 1072, 1088, 1077, 1085, 1076, 1086, 1074,
              1072, 1085, 1085, 1086, 1084, 32, 1076, 1086, 1084, 1077, 32, 1085, 1077,
              1076, 1072, 1083, 1077, 1082, 1086, 32, 1086, 1090, 32, 1094, 1077, 1085,
              1090, 1088, 1072, 59, 32, 1084, 1085, 1077, 32, 1091, 1076, 1086, 1073, 1085,
              1086, 46>>,
      \* tr: Merkeze yakın, iki katlı kiralık bir evde yaşıyorum; rahat.
      tr |-> <<77, 101, 114, 107, 101, 122, 101, 32, 121, 97, 107, 305, 110, 44, 32, 105,
              107, 105, 32, 107, 97, 116, 108, 305, 32, 107, 105, 114, 97, 108, 305, 107,
              32, 98, 105, 114, 32, 101, 118, 100, 101, 32, 121, 97, 351, 305, 121, 111,
              114, 117, 109, 59, 32, 114, 97, 104, 97, 116, 46>>,
      \* pl: Mieszkam w dwupiętrowym wynajmowanym domu blisko centrum; jest wygodnie.
      pl |-> <<77, 105, 101, 115, 122, 107, 97, 109, 32, 119, 32, 100, 119, 117, 112, 105,
              281, 116, 114, 111, 119, 121, 109, 32, 119, 121, 110, 97, 106, 109, 111, 119,
              97, 110, 121, 109, 32, 100, 111, 109, 117, 32, 98, 108, 105, 115, 107, 111,
              32, 99, 101, 110, 116, 114, 117, 109, 59, 32, 106, 101, 115, 116, 32, 119,
              121, 103, 111, 100, 110, 105, 101, 46>> ]

\* the responses of intent where_live, by language
RESP_where_live ==
      \* az: Varşavada yaşayıram, Mərkəzə yaxın iki mərtəbəli kirayə evdə yaşayıram.
    [ az |-> <<86, 97, 114, 351, 97, 118, 97, 100, 97, 32, 121, 97, 351, 97, 121, 305, 114,
              97, 109, 44, 32>>
           \o ELVIN_housing,
      \* en: I live in Warsaw. Mərkəzə yaxın iki mərtəbəli kirayə evdə yaşayıram.
      en |-> <<73, 32, 108, 105, 118, 101, 32, 105, 110, 32, 87, 97, 114, 115, 97, 119, 46,
              32>>
           \o ELVIN_housing,
      \* ru: Я живу в Варшаве. Mərkəzə yaxın iki mərtəbəli kirayə evdə yaşayıram.
      ru |-> <<1071, 32, 1078, 1080, 1074, 1091, 32, 1074, 32, 1042, 1072, 1088, 1096,
              1072, 1074, 1077, 46, 32>>
           \o ELVIN_housing,
      \* tr: Varşova’da yaşıyorum. Mərkəzə yaxın iki mərtəbəli kirayə evdə yaşayıram.
      tr |-> <<86, 97, 114, 351, 111, 118, 97, 8217, 100, 97, 32, 121, 97, 351, 305, 121,
              111, 114, 117, 109, 46, 32>>
           \o ELVIN_housing,
      \* pl: Mieszkam w Warszawie. Mərkəzə yaxın iki mərtəbəli kirayə evdə yaşayıram.
      pl |-> <<77, 105, 101, 115, 122, 107, 97, 109, 32, 119, 32, 87, 97, 114, 115, 122,
              97, 119, 105, 101, 46, 32>>
           \o ELVIN_housing ]

\* the responses of intent born_where, by language
RESP_born_where ==
      \* az: Bakı, Azərbaycan-da doğulmuşam.
    [ az |-> ELVIN_born_city
           \o <<45, 100, 97, 32, 100, 111, 287, 117, 108, 109, 117, 351, 97, 109, 46>>,
      \* en: I was born in Bakı, Azərbaycan.
      en |-> <<73, 32, 119, 97, 115, 32, 98, 111, 114, 110, 32, 105, 110, 32>>
           \o ELVIN_born_city
           \o <<46>>,
      \* ru: Я родился в Bakı, Azərbaycan.
      ru |-> <<1071, 32, 1088, 1086, 1076, 1080, 1083, 1089, 1103, 32, 1074, 32>>
           \o ELVIN_born_city
           \o <<46>>,
      \* tr: Bakı, Azərbaycan-da doğdum.
      tr |-> ELVIN_born_city
           \o <<45, 100, 97, 32, 100, 111, 287, 100, 117, 109, 46>>,
      \* pl: Urodziłem się w Bakı, Azərbaycan.
      pl |-> <<85, 114, 111, 100, 122, 105, 322, 101, 109, 32, 115, 105, 281, 32, 119, 32>>
           \o ELVIN_born_city
           \o <<46>> ]

\* the responses of intent age, by language
RESP_age ==
      \* az: 23 yaşım var, doğum tarixim 2002-05-28-dir.
    [ az |-> ELVIN_age
           \o <<32, 121, 97, 351, 305, 109, 32, 118, 97, 114, 44, 32, 100, 111, 287, 117,
              109, 32, 116, 97, 114, 105, 120, 105, 109, 32>>
           \o ELVIN_birthday
           \o <<45, 100, 105, 114, 46>>,
      \* en: I’m 23 years old; my birthday is 2002-05-28.
      en |-> <<73, 8217, 109, 32>>
           \o ELVIN_age
           \o <<32, 121, 101, 97, 114, 115, 32, 111, 108, 100, 59, 32, 109, 121, 32, 98,
              105, 114, 116, 104, 100, 97, 121, 32, 105, 115, 32>>
           \o ELVIN_birthday
           \o <<46>>,
      \* ru: Мне 23 лет; день рождения 2002-05-28.
      ru |-> <<1052, 1085, 1077, 32>>
           \o ELVIN_age
           \o <<32, 1083, 1077, 1090, 59, 32, 1076, 1077, 1085, 1100, 32, 1088, 1086, 1078,
              1076, 1077, 1085, 1080, 1103, 32>>
           \o ELVIN_birthday
           \o <<46>>,
      \* tr: 23 yaşındayım; doğum günüm 2002-05-28.
      tr |-> ELVIN_age
           \o <<32, 121, 97, 351, 305, 110, 100, 97, 121, 305, 109, 59, 32, 100, 111, 287,
              117, 109, 32, 103, 252, 110, 252, 109, 32>>
           \o ELVIN_birthday
           \o <<46>>,
      \* pl: Mam 23 lat; urodziny mam 2002-05-28.
      pl |-> <<77, 97, 109, 32>>
           \o ELVIN_age
           \o <<32, 108, 97, 116, 59, 32, 117, 114, 111, 100, 122, 105, 110, 121, 32, 109,
              97, 109, 32>>
           \o ELVIN_birthday
           \o <<46>> ]

\* the responses of intent who_are_you, by language
RESP_who_are_you ==
      \* az: Mən Elvinəm. Computer Engineering oxuyuram və real problemləri praktik həllərə çevirirəm; sabit nəticəyə fokuslanıram.
    [ az |-> <<77, 601, 110, 32, 69, 108, 118, 105, 110, 601, 109, 46, 32, 67, 111, 109,
              112, 117, 116, 101, 114, 32, 69, 110, 103, 105, 110, 101, 101, 114, 105, 110,
              103, 32, 111, 120, 117, 121, 117, 114, 97, 109, 32, 118, 601, 32, 114, 101,
              97, 108, 32, 112, 114, 111, 98, 108, 101, 109, 108, 601, 114, 105, 32, 112,
              114, 97, 107, 116, 105, 107, 32, 104, 601, 108, 108, 601, 114, 601, 32, 231,
              101, 118, 105, 114, 105, 114, 601, 109, 59, 32, 115, 97, 98, 105, 116, 32,
              110, 601, 116, 105, 99, 601, 121, 601, 32, 102, 111, 107, 117, 115, 108, 97,
              110, 305, 114, 97, 109, 46>>,
      \* en: I’m Elvin. I study Computer Engineering and like turning real problems into practical solutions; I stay focused on stable results.
      en |-> <<73, 8217, 109, 32, 69, 108, 118, 105, 110, 46, 32, 73, 32, 115, 116, 117,
              100, 121, 32, 67, 111, 109, 112, 117, 116, 101, 114, 32, 69, 110, 103, 105,
              110, 101, 101, 114, 105, 110, 103, 32, 97, 110, 100, 32, 108, 105, 107, 101,
              32, 116, 117, 114, 110, 105, 110, 103, 32, 114, 101, 97, 108, 32, 112, 114,
              111, 98, 108, 101, 109, 115, 32, 105, 110, 116, 111, 32, 112, 114, 97, 99,
              116, 105, 99, 97, 108, 32, 115, 111, 108, 117, 116, 105, 111, 110, 115, 59,
              32, 73, 32, 115, 116, 97, 121, 32, 102, 111, 99, 117, 115, 101, 100, 32, 111,
              110, 32, 115, 116, 97, 98, 108, 101, 32, 114, 101, 115, 117, 108, 116, 115,
              46>>,
      \* ru: Я Эльвин. Учусь на Computer Engineering и люблю превращать реальные задачи в практические решения; нацелен на стабильный результат.
      ru |-> <<1071, 32, 1069, 1083, 1100, 1074, 1080, 1085, 46, 32, 1059, 1095, 1091,
              1089, 1100, 32, 1085, 1072, 32, 67, 111, 109, 112, 117, 116, 101, 114, 32, 69,
              110, 103, 105, 110, 101, 101, 114, 105, 110, 103, 32, 1080, 32, 1083, 1102,
              1073, 1083, 1102, 32, 1087, 1088, 1077, 1074, 1088, 1072, 1097, 1072, 1090,
              1100, 32, 1088, 1077, 1072, 1083, 1100, 1085, 1099, 1077, 32, 1079, 1072,
              1076, 1072, 1095, 1080, 32, 1074, 32, 1087, 1088, 1072, 1082, 1090, 1080,
              1095, 1077, 1089, 1082, 1080, 1077, 32, 1088, 1077, 1096, 1077, 1085, 1080,
              1103, 59, 32, 1085, 1072, 1094, 1077, 1083, 1077, 1085, 32, 1085, 1072, 32,
              1089, 1090, 1072, 1073, 1080, 1083, 1100, 1085, 1099, 1081, 32, 1088, 1077,
              1079, 1091, 1083, 1100, 1090, 1072, 1090, 46>>,
      \* tr: Ben Elvin’im. Computer Engineering okuyorum; gerçek problemleri pratik çözümlere çevirmeyi seviyorum ve stabil sonuca odaklıyım.
      tr |-> <<66, 101, 110, 32, 69, 108, 118, 105, 110, 8217, 105, 109, 46, 32, 67, 111,
              109, 112, 117, 116, 101, 114, 32, 69, 110, 103, 105, 110, 101, 101, 114, 105,
              110, 103, 32, 111, 107, 117, 121, 111, 114, 117, 109, 59, 32, 103, 101, 114,
              231, 101, 107, 32, 112, 114, 111, 98, 108, 101, 109, 108, 101, 114, 105, 32,
              112, 114, 97, 116, 105, 107, 32, 231, 246, 122, 252, 109, 108, 101, 114, 101,
              32, 231, 101, 118, 105, 114, 109, 101, 121, 105, 32, 115, 101, 118, 105, 121,
              111, 114, 117, 109, 32, 118, 101, 32, 115, 116, 97, 98, 105, 108, 32, 115,
              111, 110, 117, 99, 97, 32, 111, 100, 97, 107, 108, 305, 121, 305, 109, 46>>,
      \* pl: Jestem Elvin. Studiuję Computer Engineering; lubię zamieniać realne problemy w praktyczne rozwiązania i skupiam się na stabilnych efektach.
      pl |-> <<74, 101, 115, 116, 101, 109, 32, 69, 108, 118, 105, 110, 46, 32, 83, 116,
              117, 100, 105, 117, 106, 281, 32, 67, 111, 109, 112, 117, 116, 101, 114, 32,
              69, 110, 103, 105, 110, 101, 101, 114, 105, 110, 103, 59, 32, 108, 117, 98,
              105, 281, 32, 122, 97, 109, 105, 101, 110, 105, 97, 263, 32, 114, 101, 97,
              108, 110, 101, 32, 112, 114, 111, 98, 108, 101, 109, 121, 32, 119, 32, 112,
              114, 97, 107, 116, 121, 99, 122, 110, 101, 32, 114, 111, 122, 119, 105, 261,
              122, 97, 110, 105, 97, 32, 105, 32, 115, 107, 117, 112, 105, 97, 109, 32, 115,
              105, 281, 32, 110, 97, 32, 115, 116, 97, 98, 105, 108, 110, 121, 99, 104, 32,
              101, 102, 101, 107, 116, 97, 99, 104, 46>> ]

\* the responses of intent why_hire, by language
RESP_why_hire ==
      \* az: Məni işə götürsəniz, işi sistemli apararam və yarımçıq qoymaram. FastAPI/Django/Flask, REST və MongoDB ilə real təcrübəm var, komandaya tez uyğunlaşıram.
    [ az |-> <<77, 601, 110, 105, 32, 105, 351, 601, 32, 103, 246, 116, 252, 114, 115, 601,
              110, 105, 122, 44, 32, 105, 351, 105, 32, 115, 105, 115, 116, 101, 109, 108,
              105, 32, 97, 112, 97, 114, 97, 114, 97, 109, 32, 118, 601, 32, 121, 97, 114,
              305, 109, 231, 305, 113, 32, 113, 111, 121, 109, 97, 114, 97, 109, 46, 32, 70,
              97, 115, 116, 65, 80, 73, 47, 68, 106, 97, 110, 103, 111, 47, 70, 108, 97,
              115, 107, 44, 32, 82, 69, 83, 84, 32, 118, 601, 32, 77, 111, 110, 103, 111,
              68, 66, 32, 105, 108, 601, 32, 114, 101, 97, 108, 32, 116, 601, 99, 114, 252,
              98, 601, 109, 32, 118, 97, 114, 44, 32, 107, 111, 109, 97, 110, 100, 97, 121,
              97, 32, 116, 101, 122, 32, 117, 121, 287, 117, 110, 108, 97, 351, 305, 114,
              97, 109, 46>>,
      \* en: If you hire me, I’ll work systematically and won’t leave things half-done. I have real experience with FastAPI/Django/Flask, REST, and MongoDB, and I adapt quickly.
      en |-> <<73, 102, 32, 121, 111, 117, 32, 104, 105, 114, 101, 32, 109, 101, 44, 32,
              73, 8217, 108, 108, 32, 119, 111, 114, 107, 32, 115, 121, 115, 116, 101, 109,
              97, 116, 105, 99, 97, 108, 108, 121, 32, 97, 110, 100, 32, 119, 111, 110,
              8217, 116, 32, 108, 101, 97, 118, 101, 32, 116, 104, 105, 110, 103, 115, 32,
              104, 97, 108, 102, 45, 100, 111, 110, 101, 46, 32, 73, 32, 104, 97, 118, 101,
              32, 114, 101, 97, 108, 32, 101, 120, 112, 101, 114, 105, 101, 110, 99, 101,
              32, 119, 105, 116, 104, 32, 70, 97, 115, 116, 65, 80, 73, 47, 68, 106, 97,
              110, 103, 111, 47, 70, 108, 97, 115, 107, 44, 32, 82, 69, 83, 84, 44, 32, 97,
              110, 100, 32, 77, 111, 110, 103, 111, 68, 66, 44, 32, 97, 110, 100, 32, 73,
              32, 97, 100, 97, 112, 116, 32, 113, 117, 105, 99, 107, 108, 121, 46>>,
      \* ru: Если вы возьмёте меня, я буду работать системно и не оставлю задачи незаконченными. У меня реальный опыт с FastAPI/Django/Flask, REST и MongoDB; быстро адаптируюсь.
      ru |-> <<1045, 1089, 1083, 1080, 32, 1074, 1099, 32, 1074, 1086, 1079, 1100, 1084,
              1105, 1090, 1077, 32, 1084, 1077, 1085, 1103, 44, 32, 1103, 32, 1073, 1091,
              1076, 1091, 32, 1088, 1072, 1073, 1086, 1090, 1072, 1090, 1100, 32, 1089,
              1080, 1089, 1090, 1077, 1084, 1085, 1086, 32, 1080, 32, 1085, 1077, 32, 1086,
              1089, 1090, 1072, 1074, 1083, 1102, 32, 1079, 1072, 1076, 1072, 1095, 1080,
              32, 1085, 1077, 1079, 1072, 1082, 1086, 1085, 1095, 1077, 1085, 1085, 1099,
              1084, 1080, 46, 32, 1059, 32, 1084, 1077, 1085, 1103, 32, 1088, 1077, 1072,
              1083, 1100, 1085, 1099, 1081, 32, 1086, 1087, 1099, 1090, 32, 1089, 32, 70,
              97, 115, 116, 65, 80, 73, 47, 68, 106, 97, 110, 103, 111, 47, 70, 108, 97,
              115, 107, 44, 32, 82, 69, 83, 84, 32, 1080, 32, 77, 111, 110, 103, 111, 68,
              66, 59, 32, 1073, 1099, 1089, 1090, 1088, 1086, 32, 1072, 1076, 1072, 1087,
              1090, 1080, 1088, 1091, 1102, 1089, 1100, 46>>,
      \* tr: Beni işe alırsanız sistemli çalışırım ve işi yarım bırakmam. FastAPI/Django/Flask, REST ve MongoDB’de gerçek tecrübem var; hızlı uyum sağlarım.
      tr |-> <<66, 101, 110, 105, 32, 105, 351, 101, 32, 97, 108, 305, 114, 115, 97, 110,
              305, 122, 32, 115, 105, 115, 116, 101, 109, 108, 105, 32, 231, 97, 108, 305,
              351, 305, 114, 305, 109, 32, 118, 101, 32, 105, 351, 105, 32, 121, 97, 114,
              305, 109, 32, 98, 305, 114, 97, 107, 109, 97, 109, 46, 32, 70, 97, 115, 116,
              65, 80, 73, 47, 68, 106, 97, 110, 103, 111, 47, 70, 108, 97, 115, 107, 44, 32,
              82, 69, 83, 84, 32, 118, 101, 32, 77, 111, 110, 103, 111, 68, 66, 8217, 100,
              101, 32, 103, 101, 114, 231, 101, 107, 32, 116, 101, 99, 114, 252, 98, 101,
              109, 32, 118, 97, 114, 59, 32, 104, 305, 122, 108, 305, 32, 117, 121, 117,
              109, 32, 115, 97, 287, 108, 97, 114, 305, 109, 46>>,
      \* pl: Jeśli mnie zatrudnisz, będę pracował systematycznie i nie zostawię rzeczy niedokończonych. Mam realne doświadczenie z FastAPI/Django/Flask, REST i MongoDB; szybko się adaptuję.
      pl |-> <<74, 101, 347, 108, 105, 32, 109, 110, 105, 101, 32, 122, 97, 116, 114, 117,
              100, 110, 105, 115, 122, 44, 32, 98, 281, 100, 281, 32, 112, 114, 97, 99, 111,
              119, 97, 322, 32, 115, 121, 115, 116, 101, 109, 97, 116, 121, 99, 122, 110,
              105, 101, 32, 105, 32, 110, 105, 101, 32, 122, 111, 115, 116, 97, 119, 105,
              281, 32, 114, 122, 101, 99, 122, 121, 32, 110, 105, 101, 100, 111, 107, 111,
              324, 99, 122, 111, 110, 121, 99, 104, 46, 32, 77, 97, 109, 32, 114, 101, 97,
              108, 110, 101, 32, 100, 111, 347, 119, 105, 97, 100, 99, 122, 101, 110, 105,
              101, 32, 122, 32, 70, 97, 115, 116, 65, 80, 73, 47, 68, 106, 97, 110, 103,
              111, 47, 70, 108, 97, 115, 107, 44, 32, 82, 69, 83, 84, 32, 105, 32, 77, 111,
              110, 103, 111, 68, 66, 59, 32, 115, 122, 121, 98, 107, 111, 32, 115, 105, 281,
              32, 97, 100, 97, 112, 116, 117, 106, 281, 46>> ]

\* the responses of intent family, by language
RESP_family ==
      \* az: Ailəm beş nəfərdir: qardaşım Farid Babanlı, bacım Fidan Babanlı, anam Mehriban Qədimova və atam Natiq Babanlı.
    [ az |-> <<65, 105, 108, 601, 109, 32, 98, 101, 351, 32, 110, 601, 102, 601, 114, 100,
              105, 114, 58, 32, 113, 97, 114, 100, 97, 351, 305, 109, 32>>
           \o ELVIN_family_brother
           \o <<44, 32, 98, 97, 99, 305, 109, 32>>
           \o ELVIN_family_sister
           \o <<44, 32, 97, 110, 97, 109, 32>>
           \o ELVIN_family_mother
           \o <<32, 118, 601, 32, 97, 116, 97, 109, 32>>
           \o ELVIN_family_father
           \o <<46>>,
      \* en: My family has five members: my brother Farid Babanlı, my sister Fidan Babanlı, my mother Mehriban Qədimova, and my father Natiq Babanlı.
      en |-> <<77, 121, 32, 102, 97, 109, 105, 108, 121, 32, 104, 97, 115, 32, 102, 105,
              118, 101, 32, 109, 101, 109, 98, 101, 114, 115, 58, 32, 109, 121, 32, 98, 114,
              111, 116, 104, 101, 114, 32>>
           \o ELVIN_family_brother
           \o <<44, 32, 109, 121, 32, 115, 105, 115, 116, 101, 114, 32>>
           \o ELVIN_family_sister
           \o <<44, 32, 109, 121, 32, 109, 111, 116, 104, 101, 114, 32>>
           \o ELVIN_family_mother
           \o <<44, 32, 97, 110, 100, 32, 109, 121, 32, 102, 97, 116, 104, 101, 114, 32>>
           \o ELVIN_family_father
           \o <<46>>,
      \* ru: В семье нас пятеро: брат Farid Babanlı, сестра Fidan Babanlı, мама Mehriban Qədimova и папа Natiq Babanlı.
      ru |-> <<1042, 32, 1089, 1077, 1084, 1100, 1077, 32, 1085, 1072, 1089, 32, 1087,
              1103, 1090, 1077, 1088, 1086, 58, 32, 1073, 1088, 1072, 1090, 32>>
           \o ELVIN_family_brother
           \o <<44, 32, 1089, 1077, 1089, 1090, 1088, 1072, 32>>
           \o ELVIN_family_sister
           \o <<44, 32, 1084, 1072, 1084, 1072, 32>>
           \o ELVIN_family_mother
           \o <<32, 1080, 32, 1087, 1072, 1087, 1072, 32>>
           \o ELVIN_family_father
           \o <<46>>,
      \* tr: Ailem beş kişidir: kardeşim Farid Babanlı, kız kardeşim Fidan Babanlı, annem Mehriban Qədimova ve babam Natiq Babanlı.
      tr |-> <<65, 105, 108, 101, 109, 32, 98, 101, 351, 32, 107, 105, 351, 105, 100, 105,
              114, 58, 32, 107, 97, 114, 100, 101, 351, 105, 109, 32>>
           \o ELVIN_family_brother
           \o <<44, 32, 107, 305, 122, 32, 107, 97, 114, 100, 101, 351, 105, 109, 32>>
           \o ELVIN_family_sister
           \o <<44, 32, 97, 110, 110, 101, 109, 32>>
           \o ELVIN_family_mother
           \o <<32, 118, 101, 32, 98, 97, 98, 97, 109, 32>>
           \o ELVIN_family_father
           \o <<46>>,
      \* pl: W rodzinie jest nas pięcioro: brat Farid Babanlı, siostra Fidan Babanlı, mama Mehriban Qədimova i tata Natiq Babanlı.
      pl |-> <<87, 32, 114, 111, 100, 122, 105, 110, 105, 101, 32, 106, 101, 115, 116, 32,
              110, 97, 115, 32, 112, 105, 281, 99, 105, 111, 114, 111, 58, 32, 98, 114, 97,
              116, 32>>
           \o ELVIN_family_brother
           \o <<44, 32, 115, 105, 111, 115, 116, 114, 97, 32>>
           \o ELVIN_family_sister
           \o <<44, 32, 109, 97, 109, 97, 32>>
           \o ELVIN_family_mother
           \o <<32, 105, 32, 116, 97, 116, 97, 32>>
           \o ELVIN_family_father
           \o <<46>> ]

\* the responses of intent love_banu, by language
RESP_love_banu ==
      \* az: İlk ciddi hisslərim Banuya olub. Onu həqiqətən çox sevdim; məndə həm zəiflik, həm də güc oyadan bir hiss idi. Hörmətlə yanaşdım, O məndə iz qoydu və məni həyatla daha möhkəm bağladı.Hər zaman onu sevməyə davam edəcəm.
    [ az |-> ELVIN_love_about,
      \* en: My first deep feelings were for Banu. I truly loved her — it made me softer and stronger at the same time. I treated her with respect and wrote letters. Even if it wasn’t mutual, it left a mark and tied me to life more firmly.
      en |-> <<77, 121, 32, 102, 105, 114, 115, 116, 32, 100, 101, 101, 112, 32, 102, 101,
              101, 108, 105, 110, 103, 115, 32, 119, 101, 114, 101, 32, 102, 111, 114, 32,
              66, 97, 110, 117, 46, 32, 73, 32, 116, 114, 117, 108, 121, 32, 108, 111, 118,
              101, 100, 32, 104, 101, 114, 32, 8212, 32, 105, 116, 32, 109, 97, 100, 101,
              32, 109, 101, 32, 115, 111, 102, 116, 101, 114, 32, 97, 110, 100, 32, 115,
              116, 114, 111, 110, 103, 101, 114, 32, 97, 116, 32, 116, 104, 101, 32, 115,
              97, 109, 101, 32, 116, 105, 109, 101, 46, 32, 73, 32, 116, 114, 101, 97, 116,
              101, 100, 32, 104, 101, 114, 32, 119, 105, 116, 104, 32, 114, 101, 115, 112,
              101, 99, 116, 32, 97, 110, 100, 32, 119, 114, 111, 116, 101, 32, 108, 101,
              116, 116, 101, 114, 115, 46, 32, 69, 118, 101, 110, 32, 105, 102, 32, 105,
              116, 32, 119, 97, 115, 110, 8217, 116, 32, 109, 117, 116, 117, 97, 108, 44,
              32, 105, 116, 32, 108, 101, 102, 116, 32, 97, 32, 109, 97, 114, 107, 32, 97,
              110, 100, 32, 116, 105, 101, 100, 32, 109, 101, 32, 116, 111, 32, 108, 105,
              102, 101, 32, 109, 111, 114, 101, 32, 102, 105, 114, 109, 108, 121, 46>>,
      \* ru: Мои первые серьёзные чувства были к Банӯ. Я её действительно любил — это делало меня одновременно мягче и сильнее. Относился с уважением, писал письма. Даже если это не стало взаимным, это оставило след и сильнее связало меня с жизнью.
      ru |-> <<1052, 1086, 1080, 32, 1087, 1077, 1088, 1074, 1099, 1077, 32, 1089, 1077,
              1088, 1100, 1105, 1079, 1085, 1099, 1077, 32, 1095, 1091, 1074, 1089, 1090,
              1074, 1072, 32, 1073, 1099, 1083, 1080, 32, 1082, 32, 1041, 1072, 1085, 1263,
              46, 32, 1071, 32, 1077, 1105, 32, 1076, 1077, 1081, 1089, 1090, 1074, 1080,
              1090, 1077, 1083, 1100, 1085, 1086, 32, 1083, 1102, 1073, 1080, 1083, 32,
              8212, 32, 1101, 1090, 1086, 32, 1076, 1077, 1083, 1072, 1083, 1086, 32, 1084,
              1077, 1085, 1103, 32, 1086, 1076, 1085, 1086, 1074, 1088, 1077, 1084, 1077,
              1085, 1085, 1086, 32, 1084, 1103, 1075, 1095, 1077, 32, 1080, 32, 1089, 1080,
              1083, 1100, 1085, 1077, 1077, 46, 32, 1054, 1090, 1085, 1086, 1089, 1080,
              1083, 1089, 1103, 32, 1089, 32, 1091, 1074, 1072, 1078, 1077, 1085, 1080,
              1077, 1084, 44, 32, 1087, 1080, 1089, 1072, 1083, 32, 1087, 1080, 1089, 1100,
              1084, 1072, 46, 32, 1044, 1072, 1078, 1077, 32, 1077, 1089, 1083, 1080, 32,
              1101, 1090, 1086, 32, 1085, 1077, 32, 1089, 1090, 1072, 1083, 1086, 32, 1074,
              1079, 1072, 1080, 1084, 1085, 1099, 1084, 44, 32, 1101, 1090, 1086, 32, 1086,
              1089, 1090, 1072, 1074, 1080, 1083, 1086, 32, 1089, 1083, 1077, 1076, 32,
              1080, 32, 1089, 1080, 1083, 1100, 1085, 1077, 1077, 32, 1089, 1074, 1103,
              1079, 1072, 1083, 1086, 32, 1084, 1077, 1085, 1103, 32, 1089, 32, 1078, 1080,
              1079, 1085, 1100, 1102, 46>>,
      \* tr: İlk derin duygularım Banu’yaydı. Ona gerçekten saygıyla yaklaştım, mektuplar yazdım; karşılık olmasa bile bende iz bıraktı ve hayata daha sıkı bağladı.
      tr |-> <<304, 108, 107, 32, 100, 101, 114, 105, 110, 32, 100, 117, 121, 103, 117,
              108, 97, 114, 305, 109, 32, 66, 97, 110, 117, 8217, 121, 97, 121, 100, 305,
              46, 32, 79, 110, 97, 32, 103, 101, 114, 231, 101, 107, 116, 101, 110, 32, 115,
              97, 121, 103, 305, 121, 108, 97, 32, 121, 97, 107, 108, 97, 351, 116, 305,
              109, 44, 32, 109, 101, 107, 116, 117, 112, 108, 97, 114, 32, 121, 97, 122,
              100, 305, 109, 59, 32, 107, 97, 114, 351, 305, 108, 305, 107, 32, 111, 108,
              109, 97, 115, 97, 32, 98, 105, 108, 101, 32, 98, 101, 110, 100, 101, 32, 105,
              122, 32, 98, 305, 114, 97, 107, 116, 305, 32, 118, 101, 32, 104, 97, 121, 97,
              116, 97, 32, 100, 97, 104, 97, 32, 115, 305, 107, 305, 32, 98, 97, 287, 108,
              97, 100, 305, 46>>,
      \* pl: Moje pierwsze głębokie uczucia były do Banu. Traktowałem ją z szacunkiem i pisałem listy; nawet jeśli nie było to odwzajemnione, zostawiło ślad i mocniej związało mnie z życiem.
      pl |-> <<77, 111, 106, 101, 32, 112, 105, 101, 114, 119, 115, 122, 101, 32, 103, 322,
              281, 98, 111, 107, 105, 101, 32, 117, 99, 122, 117, 99, 105, 97, 32, 98, 121,
              322, 121, 32, 100, 111, 32, 66, 97, 110, 117, 46, 32, 84, 114, 97, 107, 116,
              111, 119, 97, 322, 101, 109, 32, 106, 261, 32, 122, 32, 115, 122, 97, 99, 117,
              110, 107, 105, 101, 109, 32, 105, 32, 112, 105, 115, 97, 322, 101, 109, 32,
              108, 105, 115, 116, 121, 59, 32, 110, 97, 119, 101, 116, 32, 106, 101, 347,
              108, 105, 32, 110, 105, 101, 32, 98, 121, 322, 111, 32, 116, 111, 32, 111,
              100, 119, 122, 97, 106, 101, 109, 110, 105, 111, 110, 101, 44, 32, 122, 111,
              115, 116, 97, 119, 105, 322, 111, 32, 347, 108, 97, 100, 32, 105, 32, 109,
              111, 99, 110, 105, 101, 106, 32, 122, 119, 105, 261, 122, 97, 322, 111, 32,
              109, 110, 105, 101, 32, 122, 32, 380, 121, 99, 105, 101, 109, 46>> ]

\* the responses of intent projects, by language
RESP_projects ==
      \* az: Əsas layihələrim: KFC backend, AI Exam Passer (ExamEyePro), Cashly (web banking), MoodSense, MirrorMe (prototip), Z13 (Zodiac) analizi.
    [ az |-> <<399, 115, 97, 115, 32, 108, 97, 121, 105, 104, 601, 108, 601, 114, 105, 109,
              58, 32, 75, 70, 67, 32, 98, 97, 99, 107, 101, 110, 100, 44, 32, 65, 73, 32,
              69, 120, 97, 109, 32, 80, 97, 115, 115, 101, 114, 32, 40, 69, 120, 97, 109,
              69, 121, 101, 80, 114, 111, 41, 44, 32, 67, 97, 115, 104, 108, 121, 32, 40,
              119, 101, 98, 32, 98, 97, 110, 107, 105, 110, 103, 41, 44, 32, 77, 111, 111,
              100, 83, 101, 110, 115, 101, 44, 32, 77, 105, 114, 114, 111, 114, 77, 101, 32,
              40, 112, 114, 111, 116, 111, 116, 105, 112, 41, 44, 32, 90, 49, 51, 32, 40,
              90, 111, 100, 105, 97, 99, 41, 32, 97, 110, 97, 108, 105, 122, 105, 46>>,
      \* en: My main projects: KFC backend, AI Exam Passer (ExamEyePro), Cashly (web banking), MoodSense, MirrorMe (prototype), Z13 (Zodiac) analysis.
      en |-> <<77, 121, 32, 109, 97, 105, 110, 32, 112, 114, 111, 106, 101, 99, 116, 115,
              58, 32, 75, 70, 67, 32, 98, 97, 99, 107, 101, 110, 100, 44, 32, 65, 73, 32,
              69, 120, 97, 109, 32, 80, 97, 115, 115, 101, 114, 32, 40, 69, 120, 97, 109,
              69, 121, 101, 80, 114, 111, 41, 44, 32, 67, 97, 115, 104, 108, 121, 32, 40,
              119, 101, 98, 32, 98, 97, 110, 107, 105, 110, 103, 41, 44, 32, 77, 111, 111,
              100, 83, 101, 110, 115, 101, 44, 32, 77, 105, 114, 114, 111, 114, 77, 101, 32,
              40, 112, 114, 111, 116, 111, 116, 121, 112, 101, 41, 44, 32, 90, 49, 51, 32,
              40, 90, 111, 100, 105, 97, 99, 41, 32, 97, 110, 97, 108, 121, 115, 105, 115,
              46>>,
      \* ru: Мои основные проекты: KFC backend, AI Exam Passer (ExamEyePro), Cashly (web banking), MoodSense, MirrorMe (прототип), Z13 (Zodiac) анализ.
      ru |-> <<1052, 1086, 1080, 32, 1086, 1089, 1085, 1086, 1074, 1085, 1099, 1077, 32,
              1087, 1088, 1086, 1077, 1082, 1090, 1099, 58, 32, 75, 70, 67, 32, 98, 97, 99,
              107, 101, 110, 100, 44, 32, 65, 73, 32, 69, 120, 97, 109, 32, 80, 97, 115,
              115, 101, 114, 32, 40, 69, 120, 97, 109, 69, 121, 101, 80, 114, 111, 41, 44,
              32, 67, 97, 115, 104, 108, 121, 32, 40, 119, 101, 98, 32, 98, 97, 110, 107,
              105, 110, 103, 41, 44, 32, 77, 111, 111, 100, 83, 101, 110, 115, 101, 44, 32,
              77, 105, 114, 114, 111, 114, 77, 101, 32, 40, 1087, 1088, 1086, 1090, 1086,
              1090, 1080, 1087, 41, 44, 32, 90, 49, 51, 32, 40, 90, 111, 100, 105, 97, 99,
              41, 32, 1072, 1085, 1072, 1083, 1080, 1079, 46>>,
      \* tr: Ana projelerim: KFC backend, AI Exam Passer (ExamEyePro), Cashly (web banking), MoodSense, MirrorMe (prototip), Z13 (Zodiac) analizi.
      tr |-> <<65, 110, 97, 32, 112, 114, 111, 106, 101, 108, 101, 114, 105, 109, 58, 32,
              75, 70, 67, 32, 98, 97, 99, 107, 101, 110, 100, 44, 32, 65, 73, 32, 69, 120,
              97, 109, 32, 80, 97, 115, 115, 101, 114, 32, 40, 69, 120, 97, 109, 69, 121,
              101, 80, 114, 111, 41, 44, 32, 67, 97, 115, 104, 108, 121, 32, 40, 119, 101,
              98, 32, 98, 97, 110, 107, 105, 110, 103, 41, 44, 32, 77, 111, 111, 100, 83,
              101, 110, 115, 101, 44, 32, 77, 105, 114, 114, 111, 114, 77, 101, 32, 40, 112,
              114, 111, 116, 111, 116, 105, 112, 41, 44, 32, 90, 49, 51, 32, 40, 90, 111,
              100, 105, 97, 99, 41, 32, 97, 110, 97, 108, 105, 122, 105, 46>>,
      \* pl: Moje główne projekty: KFC backend, AI Exam Passer (ExamEyePro), Cashly (web banking), MoodSense, MirrorMe (prototyp), analiza Z13 (Zodiac).
      pl |-> <<77, 111, 106, 101, 32, 103, 322, 243, 119, 110, 101, 32, 112, 114, 111, 106,
              101, 107, 116, 121, 58, 32, 75, 70, 67, 32, 98, 97, 99, 107, 101, 110, 100,
              44, 32, 65, 73, 32, 69, 120, 97, 109, 32, 80, 97, 115, 115, 101, 114, 32, 40,
              69, 120, 97, 109, 69, 121, 101, 80, 114, 111, 41, 44, 32, 67, 97, 115, 104,
              108, 121, 32, 40, 119, 101, 98, 32, 98, 97, 110, 107, 105, 110, 103, 41, 44,
              32, 77, 111, 111, 100, 83, 101, 110, 115, 101, 44, 32, 77, 105, 114, 114, 111,
              114, 77, 101, 32, 40, 112, 114, 111, 116, 111, 116, 121, 112, 41, 44, 32, 97,
              110, 97, 108, 105, 122, 97, 32, 90, 49, 51, 32, 40, 90, 111, 100, 105, 97, 99,
              41, 46>> ]

\* the responses of intent email_contact, by language
RESP_email_contact ==
      \* az: Əlaqə üçün: elvinbabanli0@gmail.com
    [ az |-> <<399, 108, 97, 113, 601, 32, 252, 231, 252, 110, 58, 32>>
           \o ELVIN_email,
      \* en: You can reach me at: elvinbabanli0@gmail.com
      en |-> <<89, 111, 117, 32, 99, 97, 110, 32, 114, 101, 97, 99, 104, 32, 109, 101, 32,
              97, 116, 58, 32>>
           \o ELVIN_email,
      \* ru: Для связи: elvinbabanli0@gmail.com
      ru |-> <<1044, 1083, 1103, 32, 1089, 1074, 1103, 1079, 1080, 58, 32>>
           \o ELVIN_email,
      \* tr: İletişim: elvinbabanli0@gmail.com
      tr |-> <<304, 108, 101, 116, 105, 351, 105, 109, 58, 32>>
           \o ELVIN_email,
      \* pl: Kontakt: elvinbabanli0@gmail.com
      pl |-> <<75, 111, 110, 116, 97, 107, 116, 58, 32>>
           \o ELVIN_email ]

\* ------------------------------------------------------------ SEMANTIC_QA

\* (question_en, answer_en, answer_az, answer_ru, answer_tr, answer_pl)
SEMANTIC_QA ==
    <<
      \* Where do you live?
      <<<<87, 104, 101, 114, 101, 32, 100, 111, 32, 121, 111, 117, 32, 108, 105, 118,
           101, 63>>,
        <<73, 32, 108, 105, 118, 101, 32, 105, 110, 32, 87, 97, 114, 115, 97, 119, 46,
           32>>
        \o ELVIN_housing,
        <<86, 97, 114, 351, 97, 118, 97, 100, 97, 32, 121, 97, 351, 97, 121, 305, 114,
           97, 109, 44, 32>>
        \o ELVIN_housing,
        <<1071, 32, 1078, 1080, 1074, 1091, 32, 1074, 32, 1042, 1072, 1088, 1096, 1072,
           1074, 1077, 46, 32>>
        \o ELVIN_housing,
        <<86, 97, 114, 351, 111, 118, 97, 8217, 100, 97, 32, 121, 97, 351, 305, 121, 111,
           114, 117, 109, 46, 32>>
        \o ELVIN_housing,
        <<77, 105, 101, 115, 122, 107, 97, 109, 32, 119, 32, 87, 97, 114, 115, 122, 97,
           119, 105, 101, 46, 32>>
        \o ELVIN_housing>>,
      \* Which city were you born in?
      <<<<87, 104, 105, 99, 104, 32, 99, 105, 116, 121, 32, 119, 101, 114, 101, 32, 121,
           111, 117, 32, 98, 111, 114, 110, 32, 105, 110, 63>>,
        <<73, 32, 119, 97, 115, 32, 98, 111, 114, 110, 32, 105, 110, 32>>
        \o ELVIN_born_city
        \o <<46>>,
        ELVIN_born_city
        \o <<45, 100, 97, 32, 100, 111, 287, 117, 108, 109, 117, 351, 97, 109, 46>>,
        <<1071, 32, 1088, 1086, 1076, 1080, 1083, 1089, 1103, 32, 1074, 32>>
        \o ELVIN_born_city
        \o <<46>>,
        ELVIN_born_city
        \o <<45, 100, 97, 32, 100, 111, 287, 100, 117, 109, 46>>,
        <<85, 114, 111, 100, 122, 105, 322, 101, 109, 32, 115, 105, 281, 32, 119, 32>>
        \o ELVIN_born_city
        \o <<46>>>>,
      \* How old are you?
      <<<<72, 111, 119, 32, 111, 108, 100, 32, 97, 114, 101, 32, 121, 111, 117, 63>>,
        <<73, 8217, 109, 32>>
        \o ELVIN_age
        \o <<32, 121, 101, 97, 114, 115, 32, 111, 108, 100, 59, 32, 109, 121, 32, 98, 105,
           114, 116, 104, 100, 97, 121, 32, 105, 115, 32>>
        \o ELVIN_birthday
        \o <<46>>,
        ELVIN_age
        \o <<32, 121, 97, 351, 305, 109, 32, 118, 97, 114, 44, 32, 100, 111, 287, 117, 109,
           32, 116, 97, 114, 105, 120, 105, 109, 32>>
        \o ELVIN_birthday
        \o <<45, 100, 105, 114, 46>>,
        <<1052, 1085, 1077, 32>>
        \o ELVIN_age
        \o <<32, 1083, 1077, 1090, 59, 32, 1076, 1077, 1085, 1100, 32, 1088, 1086, 1078,
           1076, 1077, 1085, 1080, 1103, 32>>
        \o ELVIN_birthday
        \o <<46>>,
        ELVIN_age
        \o <<32, 121, 97, 351, 305, 110, 100, 97, 121, 305, 109, 59, 32, 100, 111, 287, 117,
           109, 32, 103, 252, 110, 252, 109, 32>>
        \o ELVIN_birthday
        \o <<46>>,
        <<77, 97, 109, 32>>
        \o ELVIN_age
        \o <<32, 108, 97, 116, 59, 32, 117, 114, 111, 100, 122, 105, 110, 121, 32, 109, 97,
           109, 32>>
        \o ELVIN_birthday
        \o <<46>>>>,
      \* Which programming languages do you use?
      <<<<87, 104, 105, 99, 104, 32, 112, 114, 111, 103, 114, 97, 109, 109, 105, 110,
           103, 32, 108, 97, 110, 103, 117, 97, 103, 101, 115, 32, 100, 111, 32, 121, 111,
           117, 32, 117, 115, 101, 63>>,
        <<77, 97, 105, 110, 108, 121, 32, 80, 121, 116, 104, 111, 110, 32, 40, 70, 97,
           115, 116, 65, 80, 73, 44, 32, 68, 106, 97, 110, 103, 111, 44, 32, 70, 108, 97,
           115, 107, 41, 32, 97, 110, 100, 32, 77, 111, 110, 103, 111, 68, 66, 59, 32, 97,
           108, 115, 111, 32, 74, 97, 118, 97, 83, 99, 114, 105, 112, 116, 44, 32, 82, 101,
           97, 99, 116, 44, 32, 69, 108, 101, 99, 116, 114, 111, 110, 46, 32, 73, 8217, 118,
           101, 32, 100, 111, 110, 101, 32, 112, 114, 111, 106, 101, 99, 116, 115, 32, 119,
           105, 116, 104, 32, 84, 101, 110, 115, 111, 114, 70, 108, 111, 119, 32, 97, 110,
           100, 32, 79, 112, 101, 110, 67, 86, 46>>,
        <<399, 115, 97, 115, 601, 110, 32, 80, 121, 116, 104, 111, 110, 32, 40, 70, 97,
           115, 116, 65, 80, 73, 44, 32, 68, 106, 97, 110, 103, 111, 44, 32, 70, 108, 97,
           115, 107, 41, 32, 118, 601, 32, 77, 111, 110, 103, 111, 68, 66, 59, 32, 104, 601,
           109, 32, 100, 601, 32, 74, 97, 118, 97, 83, 99, 114, 105, 112, 116, 44, 32, 82,
           101, 97, 99, 116, 44, 32, 69, 108, 101, 99, 116, 114, 111, 110, 46, 32, 84, 101,
           110, 115, 111, 114, 70, 108, 111, 119, 32, 118, 601, 32, 79, 112, 101, 110, 67,
           86, 32, 105, 108, 601, 32, 108, 97, 121, 105, 104, 601, 108, 601, 114, 32, 101,
           116, 109, 105, 351, 601, 109, 46>>,
        <<1042, 32, 1086, 1089, 1085, 1086, 1074, 1085, 1086, 1084, 32, 80, 121, 116,
           104, 111, 110, 32, 40, 70, 97, 115, 116, 65, 80, 73, 44, 32, 68, 106, 97, 110,
           103, 111, 44, 32, 70, 108, 97, 115, 107, 41, 32, 1080, 32, 77, 111, 110, 103,
           111, 68, 66, 59, 32, 1090, 1072, 1082, 1078, 1077, 32, 74, 97, 118, 97, 83, 99,
           114, 105, 112, 116, 44, 32, 82, 101, 97, 99, 116, 44, 32, 69, 108, 101, 99, 116,
           114, 111, 110, 46, 32, 1044, 1077, 1083, 1072, 1083, 32, 1087, 1088, 1086, 1077,
           1082, 1090, 1099, 32, 1089, 32, 84, 101, 110, 115, 111, 114, 70, 108, 111, 119,
           32, 1080, 32, 79, 112, 101, 110, 67, 86, 46>>,
        <<65, 287, 305, 114, 108, 305, 107, 108, 305, 32, 80, 121, 116, 104, 111, 110,
           32, 40, 70, 97, 115, 116, 65, 80, 73, 44, 32, 68, 106, 97, 110, 103, 111, 44, 32,
           70, 108, 97, 115, 107, 41, 32, 118, 101, 32, 77, 111, 110, 103, 111, 68, 66, 59,
           32, 97, 121, 114, 305, 99, 97, 32, 74, 97, 118, 97, 83, 99, 114, 105, 112, 116,
           44, 32, 82, 101, 97, 99, 116, 44, 32, 69, 108, 101, 99, 116, 114, 111, 110, 46,
           32, 84, 101, 110, 115, 111, 114, 70, 108, 111, 119, 32, 118, 101, 32, 79, 112,
           101, 110, 67, 86, 32, 112, 114, 111, 106, 101, 108, 101, 114, 105, 32, 121, 97,
           112, 116, 305, 109, 46>>,
        <<71, 322, 243, 119, 110, 105, 101, 32, 80, 121, 116, 104, 111, 110, 32, 40, 70,
           97, 115, 116, 65, 80, 73, 44, 32, 68, 106, 97, 110, 103, 111, 44, 32, 70, 108,
           97, 115, 107, 41, 32, 105, 32, 77, 111, 110, 103, 111, 68, 66, 59, 32, 116, 97,
           107, 380, 101, 32, 74, 97, 118, 97, 83, 99, 114, 105, 112, 116, 44, 32, 82, 101,
           97, 99, 116, 44, 32, 69, 108, 101, 99, 116, 114, 111, 110, 46, 32, 82, 101, 97,
           108, 105, 122, 111, 119, 97, 322, 101, 109, 32, 112, 114, 111, 106, 101, 107,
           116, 121, 32, 122, 32, 84, 101, 110, 115, 111, 114, 70, 108, 111, 119, 32, 105,
           32, 79, 112, 101, 110, 67, 86, 46>>>>,
      \* Tell me about Banu.
      <<<<84, 101, 108, 108, 32, 109, 101, 32, 97, 98, 111, 117, 116, 32, 66, 97, 110,
           117, 46>>,
        <<77, 121, 32, 102, 105, 114, 115, 116, 32, 100, 101, 101, 112, 32, 102, 101,
           101, 108, 105, 110, 103, 115, 32, 119, 101, 114, 101, 32, 102, 111, 114, 32, 66,
           97, 110, 117, 59, 32, 73, 32, 114, 101, 115, 112, 101, 99, 116, 101, 100, 32,
           104, 101, 114, 32, 97, 110, 100, 32, 119, 114, 111, 116, 101, 32, 108, 101, 116,
           116, 101, 114, 115, 46, 32, 69, 118, 101, 110, 32, 105, 102, 32, 105, 116, 32,
           119, 97, 115, 110, 8217, 116, 32, 109, 117, 116, 117, 97, 108, 44, 32, 105, 116,
           32, 108, 101, 102, 116, 32, 97, 32, 109, 97, 114, 107, 32, 97, 110, 100, 32, 109,
           97, 100, 101, 32, 109, 101, 32, 102, 101, 101, 108, 32, 109, 111, 114, 101, 32,
           99, 111, 110, 110, 101, 99, 116, 101, 100, 32, 116, 111, 32, 108, 105, 102, 101,
           46>>,
        ELVIN_love_about,
        <<1052, 1086, 1080, 32, 1087, 1077, 1088, 1074, 1099, 1077, 32, 1075, 1083, 1091,
           1073, 1086, 1082, 1080, 1077, 32, 1095, 1091, 1074, 1089, 1090, 1074, 1072, 32,
           1073, 1099, 1083, 1080, 32, 1082, 32, 1041, 1072, 1085, 1263, 59, 32, 1086, 1090,
           1085, 1086, 1089, 1080, 1083, 1089, 1103, 32, 1089, 32, 1091, 1074, 1072, 1078,
           1077, 1085, 1080, 1077, 1084, 44, 32, 1087, 1080, 1089, 1072, 1083, 32, 1087,
           1080, 1089, 1100, 1084, 1072, 46, 32, 1044, 1072, 1078, 1077, 32, 1077, 1089,
           1083, 1080, 32, 1101, 1090, 1086, 32, 1085, 1077, 32, 1089, 1090, 1072, 1083,
           1086, 32, 1074, 1079, 1072, 1080, 1084, 1085, 1099, 1084, 44, 32, 1101, 1090,
           1086, 32, 1086, 1089, 1090, 1072, 1074, 1080, 1083, 1086, 32, 1089, 1083, 1077,
           1076, 32, 1080, 32, 1089, 1080, 1083, 1100, 1085, 1077, 1077, 32, 1089, 1074,
           1103, 1079, 1072, 1083, 1086, 32, 1084, 1077, 1085, 1103, 32, 1089, 32, 1078,
           1080, 1079, 1085, 1100, 1102, 46>>,
        <<304, 108, 107, 32, 100, 101, 114, 105, 110, 32, 100, 117, 121, 103, 117, 108,
           97, 114, 305, 109, 32, 66, 97, 110, 117, 8217, 121, 97, 121, 100, 305, 59, 32,
           115, 97, 121, 103, 305, 121, 108, 97, 32, 121, 97, 107, 108, 97, 351, 116, 305,
           109, 32, 118, 101, 32, 109, 101, 107, 116, 117, 112, 108, 97, 114, 32, 121, 97,
           122, 100, 305, 109, 46, 32, 75, 97, 114, 351, 305, 108, 305, 107, 32, 111, 108,
           109, 97, 115, 97, 32, 98, 105, 108, 101, 32, 98, 101, 110, 100, 101, 32, 105,
           122, 32, 98, 305, 114, 97, 107, 116, 305, 32, 118, 101, 32, 104, 97, 121, 97,
           116, 97, 32, 100, 97, 104, 97, 32, 98, 97, 287, 108, 305, 32, 104, 105, 115, 115,
           101, 116, 116, 105, 114, 100, 105, 46>>,
        <<77, 111, 106, 101, 32, 112, 105, 101, 114, 119, 115, 122, 101, 32, 103, 322,
           281, 98, 111, 107, 105, 101, 32, 117, 99, 122, 117, 99, 105, 97, 32, 98, 121,
           322, 121, 32, 100, 111, 32, 66, 97, 110, 117, 59, 32, 116, 114, 97, 107, 116,
           111, 119, 97, 322, 101, 109, 32, 106, 261, 32, 122, 32, 115, 122, 97, 99, 117,
           110, 107, 105, 101, 109, 32, 105, 32, 112, 105, 115, 97, 322, 101, 109, 32, 108,
           105, 115, 116, 121, 46, 32, 78, 97, 119, 101, 116, 32, 106, 101, 347, 108, 105,
           32, 116, 111, 32, 110, 105, 101, 32, 98, 121, 322, 111, 32, 111, 100, 119, 122,
           97, 106, 101, 109, 110, 105, 111, 110, 101, 44, 32, 122, 111, 115, 116, 97, 119,
           105, 322, 111, 32, 347, 108, 97, 100, 46>>>>,
      \* Who are you?
      <<<<87, 104, 111, 32, 97, 114, 101, 32, 121, 111, 117, 63>>,
        <<73, 8217, 109, 32, 69, 108, 118, 105, 110, 32, 8212, 32, 97, 32, 67, 111, 109,
           112, 117, 116, 101, 114, 32, 69, 110, 103, 105, 110, 101, 101, 114, 105, 110,
           103, 32, 115, 116, 117, 100, 101, 110, 116, 32, 119, 104, 111, 32, 112, 114, 101,
           102, 101, 114, 115, 32, 115, 121, 115, 116, 101, 109, 97, 116, 105, 99, 32, 119,
           111, 114, 107, 32, 97, 110, 100, 32, 115, 116, 97, 98, 108, 101, 32, 111, 117,
           116, 99, 111, 109, 101, 115, 46>>,
        <<77, 601, 110, 32, 69, 108, 118, 105, 110, 601, 109, 32, 8212, 32, 67, 111, 109,
           112, 117, 116, 101, 114, 32, 69, 110, 103, 105, 110, 101, 101, 114, 105, 110,
           103, 32, 116, 601, 108, 601, 98, 601, 115, 105, 121, 601, 109, 59, 32, 115, 105,
           115, 116, 101, 109, 108, 105, 32, 105, 351, 108, 601, 109, 601, 121, 105, 32,
           118, 601, 32, 115, 97, 98, 105, 116, 32, 110, 601, 116, 105, 99, 601, 110, 105,
           32, 252, 115, 116, 252, 110, 32, 116, 117, 116, 117, 114, 97, 109, 46>>,
        <<1071, 32, 1069, 1083, 1100, 1074, 1080, 1085, 32, 8212, 32, 1089, 1090, 1091,
           1076, 1077, 1085, 1090, 32, 67, 111, 109, 112, 117, 116, 101, 114, 32, 69, 110,
           103, 105, 110, 101, 101, 114, 105, 110, 103, 59, 32, 1087, 1088, 1077, 1076,
           1087, 1086, 1095, 1080, 1090, 1072, 1102, 32, 1089, 1080, 1089, 1090, 1077, 1084,
           1085, 1091, 1102, 32, 1088, 1072, 1073, 1086, 1090, 1091, 32, 1080, 32, 1089,
           1090, 1072, 1073, 1080, 1083, 1100, 1085, 1099, 1081, 32, 1088, 1077, 1079, 1091,
           1083, 1100, 1090, 1072, 1090, 46>>,
        <<66, 101, 110, 32, 69, 108, 118, 105, 110, 8217, 105, 109, 32, 8212, 32, 67,
           111, 109, 112, 117, 116, 101, 114, 32, 69, 110, 103, 105, 110, 101, 101, 114,
           105, 110, 103, 32, 246, 287, 114, 101, 110, 99, 105, 115, 105, 121, 105, 109, 59,
           32, 115, 105, 115, 116, 101, 109, 108, 105, 32, 231, 97, 108, 305, 351, 109, 97,
           121, 305, 32, 118, 101, 32, 115, 116, 97, 98, 105, 108, 32, 115, 111, 110, 117,
           99, 117, 32, 116, 101, 114, 99, 105, 104, 32, 101, 100, 101, 114, 105, 109, 46>>,
        <<74, 101, 115, 116, 101, 109, 32, 69, 108, 118, 105, 110, 32, 8212, 32, 115,
           116, 117, 100, 101, 110, 116, 32, 67, 111, 109, 112, 117, 116, 101, 114, 32, 69,
           110, 103, 105, 110, 101, 101, 114, 105, 110, 103, 59, 32, 119, 111, 108, 281, 32,
           112, 114, 97, 99, 281, 32, 115, 121, 115, 116, 101, 109, 97, 116, 121, 99, 122,
           110, 261, 32, 105, 32, 115, 116, 97, 98, 105, 108, 110, 101, 32, 119, 121, 110,
           105, 107, 105, 46>>>>
    >>

\* ------------------------------------------------ datetime.now(TZ).strftime

\* %d, %m, %H, %M: two digits, zero padded
TwoDigits(n) == <<48 + (n \div 10), 48 + (n % 10)>>

\* %Y
FourDigits(n) ==
    <<48 + (n \div 1000), 48 + ((n \div 100) % 10), 48 + ((n \div 10) % 10), 48 + (n % 10)>>

\* %B: the full month name (the process runs in the C locale)
MonthName(m) ==
    <<<<74, 97, 110, 117, 97, 114, 121>>,
      <<70, 101, 98, 114, 117, 97, 114, 121>>,
      <<77, 97, 114, 99, 104>>,
      <<65, 112, 114, 105, 108>>,
      <<77, 97, 121>>,
      <<74, 117, 110, 101>>,
      <<74, 117, 108, 121>>,
      <<65, 117, 103, 117, 115, 116>>,
      <<83, 101, 112, 116, 101, 109, 98, 101, 114>>,
      <<79, 99, 116, 111, 98, 101, 114>>,
      <<78, 111, 118, 101, 109, 98, 101, 114>>,
      <<68, 101, 99, 101, 109, 98, 101, 114>>>>[m]

\* route_intent, branch today_date
RESP_today_date(lang, now) ==
    \* Today is %B %d, %Y.
    IF lang = "en" THEN
        <<84, 111, 100, 97, 121, 32, 105, 115, 32>>
        \o MonthName(now.month)
        \o <<32>>
        \o TwoDigits(now.day)
        \o <<44, 32>>
        \o FourDigits(now.year)
        \o <<46>>
    \* Сегодня %d %B %Y г.
    ELSE IF lang = "ru" THEN
        <<1057, 1077, 1075, 1086, 1076, 1085, 1103, 32>>
        \o TwoDigits(now.day)
        \o <<32>>
        \o MonthName(now.month)
        \o <<32>>
        \o FourDigits(now.year)
        \o <<32, 1075, 46>>
    \* Bugün %d %B %Y.
    ELSE IF lang = "tr" THEN
        <<66, 117, 103, 252, 110, 32>>
        \o TwoDigits(now.day)
        \o <<32>>
        \o MonthName(now.month)
        \o <<32>>
        \o FourDigits(now.year)
        \o <<46>>
    \* Dziś jest %d %B %Y.
    ELSE IF lang = "pl" THEN
        <<68, 122, 105, 347, 32, 106, 101, 115, 116, 32>>
        \o TwoDigits(now.day)
        \o <<32>>
        \o MonthName(now.month)
        \o <<32>>
        \o FourDigits(now.year)
        \o <<46>>
    \* Bu gün %d.%m.%Y-dir.
    ELSE
        <<66, 117, 32, 103, 252, 110, 32>>
        \o TwoDigits(now.day)
        \o <<46>>
        \o TwoDigits(now.month)
        \o <<46>>
        \o FourDigits(now.year)
        \o <<45, 100, 105, 114, 46>>

\* route_intent, branch time_now
RESP_time_now(lang, now) ==
    \* Current time: %H:%M (Europe/Warsaw).
    IF lang = "en" THEN
        <<67, 117, 114, 114, 101, 110, 116, 32, 116, 105, 109, 101, 58, 32>>
        \o TwoDigits(now.hour)
        \o <<58>>
        \o TwoDigits(now.minute)
        \o <<32, 40, 69, 117, 114, 111, 112, 101, 47, 87, 97, 114, 115, 97, 119, 41, 46>>
    \* Текущее время: %H:%M (Европа/Варшава).
    ELSE IF lang = "ru" THEN
        <<1058, 1077, 1082, 1091, 1097, 1077, 1077, 32, 1074, 1088, 1077, 1084, 1103, 58, 32>>
        \o TwoDigits(now.hour)
        \o <<58>>
        \o TwoDigits(now.minute)
        \o <<32, 40, 1045, 1074, 1088, 1086, 1087, 1072, 47, 1042, 1072, 1088, 1096, 1072, 1074, 1072, 41, 46>>
    \* Şu an saat: %H:%M (Europe/Warsaw).
    ELSE IF lang = "tr" THEN
        <<350, 117, 32, 97, 110, 32, 115, 97, 97, 116, 58, 32>>
        \o TwoDigits(now.hour)
        \o <<58>>
        \o TwoDigits(now.minute)
        \o <<32, 40, 69, 117, 114, 111, 112, 101, 47, 87, 97, 114, 115, 97, 119, 41, 46>>
    \* Aktualna godzina: %H:%M (Europe/Warsaw).
    ELSE IF lang = "pl" THEN
        <<65, 107, 116, 117, 97, 108, 110, 97, 32, 103, 111, 100, 122, 105, 110, 97, 58, 32>>
        \o TwoDigits(now.hour)
        \o <<58>>
        \o TwoDigits(now.minute)
        \o <<32, 40, 69, 117, 114, 111, 112, 101, 47, 87, 97, 114, 115, 97, 119, 41, 46>>
    \* Hazırki saat: %H:%M (Europe/Warsaw).
    ELSE
        <<72, 97, 122, 305, 114, 107, 105, 32, 115, 97, 97, 116, 58, 32>>
        \o TwoDigits(now.hour)
        \o <<58>>
        \o TwoDigits(now.minute)
        \o <<32, 40, 69, 117, 114, 111, 112, 101, 47, 87, 97, 114, 115, 97, 119, 41, 46>>

\* route_intent: the branch of the matched rule's name
Respond(name, lang, now) ==
    CASE name = "programming_langs" -> RESP_programming_langs[lang]
      [] name = "spoken_langs" -> RESP_spoken_langs[lang]
      [] name = "where_live_house" -> RESP_where_live_house[lang]
      [] name = "where_live" -> RESP_where_live[lang]
      [] name = "born_where" -> RESP_born_where[lang]
      [] name = "age" -> RESP_age[lang]
      [] name = "who_are_you" -> RESP_who_are_you[lang]
      [] name = "why_hire" -> RESP_why_hire[lang]
      [] name = "family" -> RESP_family[lang]
      [] name = "love_banu" -> RESP_love_banu[lang]
      [] name = "projects" -> RESP_projects[lang]
      [] name = "email_contact" -> RESP_email_contact[lang]
      [] name = "today_date" -> RESP_today_date(lang, now)
      [] name = "time_now" -> RESP_time_now(lang, now)

\* The rules of INTENTS whose pattern matches t
Hits(t) == { n \in 1..Len(INTENTS) : Search(INTENTS[n].pattern, t, TRUE) }

\* The rule that matches and stands last in INTENTS
FirstHit_Last(hits) == CHOOSE n \in hits : \A m \in hits : n >= m

\* for name, pattern in INTENTS: if pattern.search(t): the first rule that matches
FirstHit(hits) == CHOOSE n \in hits : \A m \in hits : n <= m

\* The return value of route_intent, given the rules that match
RouteHits(hits, lang, now) ==
    IF hits = {} THEN None
    ELSE Some(Respond(INTENTS[FirstHit(hits)].name, lang, now))

route_intent(q, lang, now) == RouteHits(Hits(Lower(Strip(q))), lang, now)

\* --------------------------------------------------------- semantic_answer

\* A similarity score: the fraction n/d with d > 0.  The embedding vectors of
\* the model have integer components and integer Euclidean norms, for which
\* the floating-point sum, math.sqrt and product of _cos are exact.
Frac(n, d) == [n |-> n, d |-> d]

FracLess(x, y) == x.n * y.d < y.n * x.d

\* scores[i] < 0.74
SEM_THRESHOLD == Frac(74, 100)

RECURSIVE Dot(_, _)
\* sum(x*y for x,y in zip(a,b))
Dot(a, b) ==
    IF a = <<>> \/ b = <<>> THEN 0
    ELSE Head(a) * Head(b) + Dot(Tail(a), Tail(b))

RECURSIVE SqrtSearch(_, _, _)
SqrtSearch(n, lo, hi) ==
    IF lo >= hi THEN lo
    ELSE LET mid == (lo + hi + 1) \div 2
         IN  IF mid * mid <= n THEN SqrtSearch(n, mid, hi) ELSE SqrtSearch(n, lo, mid - 1)

\* math.sqrt of a perfect square
Sqrt(n) == SqrtSearch(n, 0, IF n < 46340 THEN n ELSE 46340)

cos(a, b) ==
    LET s == Dot(a, b)
        na == Sqrt(Dot(a, a))
        nb == Sqrt(Dot(b, b))
    IN  IF na = 0 \/ nb = 0 THEN Frac(0, 1) ELSE Frac(s, na * nb)

\* [_cos(vec, v) for v in _sem_vectors]
Scores(vec, index) == [k \in 1..Len(index) |-> cos(vec, index[k])]

\* max(range(len(scores)), key=lambda k: scores[k]): the first index of a
\* greatest score
ArgMax(scores) ==
    CHOOSE i \in 1..Len(scores) :
        /\ \A k \in 1..Len(scores) : ~FracLess(scores[i], scores[k])
        /\ \A k \in 1..(i - 1) : FracLess(scores[k], scores[i])

\* _, en, az, ru, tr, pl = SEMANTIC_QA[i]; {"az":az,...}[lang]
QaAnswer(i, lang) ==
    LET row == SEMANTIC_QA[i]
    IN  [az |-> row[3], en |-> row[2], ru |-> row[4], tr |-> row[5], pl |-> row[6]][lang]

\* The threshold test with the bound excluded: a score of exactly 0.74 is
\* rejected
BelowThreshold_Exclusive(score) == ~FracLess(SEM_THRESHOLD, score)

\* The threshold test of semantic_answer on the best score
BelowThreshold(score) == FracLess(score, SEM_THRESHOLD)

\* semantic_answer once the query vector is there
SemanticPick(scores, lang) ==
    IF scores = <<>> THEN None
    ELSE LET i == ArgMax(scores)
         IN  IF BelowThreshold(scores[i]) THEN None ELSE Some(QaAnswer(i, lang))

\* ------------------------------------------------------------- postprocess

\* The line boundaries of str.splitlines
IsLineBreak(c) == c \in 10..13 \/ c \in 28..30 \/ c \in {133, 8232, 8233}

RECURSIVE SplitFrom(_, _)
\* The lines of t, the line read so far being cur
SplitFrom(t, cur) ==
    IF t = <<>> THEN (IF cur = <<>> THEN <<>> ELSE <<cur>>)
    ELSE IF Head(t) = 13 /\ Len(t) >= 2 /\ t[2] = 10 THEN <<cur>> \o SplitFrom(Tail(Tail(t)), <<>>)
    ELSE IF IsLineBreak(Head(t)) THEN <<cur>> \o SplitFrom(Tail(t), <<>>)
    ELSE SplitFrom(Tail(t), Append(cur, Head(t)))

\* str.splitlines()
SplitLines(t) == SplitFrom(t, <<>>)

\* [\-\•\*]
IsBullet(c) == c \in {45, 8226, 42}

\* re.sub(r"^[\-\•\*]\s*", "", l)
StripBullet(l) ==
    IF l # <<>> /\ IsBullet(Head(l)) THEN LStrip(Tail(l)) ELSE l

RECURSIVE JoinLines(_)
\* " ".join(lines)
JoinLines(ls) ==
    IF ls = <<>> THEN <<>>
    ELSE IF Len(ls) = 1 THEN ls[1]
    ELSE ls[1] \o <<32>> \o JoinLines(Tail(ls))

RECURSIVE CollapseSpaces(_)
\* re.sub(r"\s{2,}", " ", joined)
CollapseSpaces(t) ==
    IF t = <<>> THEN <<>>
    ELSE IF Len(t) >= 2 /\ IsSpace(t[1]) /\ IsSpace(t[2]) THEN <<32>> \o CollapseSpaces(LStrip(t))
    ELSE <<Head(t)>> \o CollapseSpaces(Tail(t))

RECURSIVE CleanLines(_)
\* [re.sub(...).strip() for l in text.splitlines() if l.strip()]
CleanLines(ls) ==
    IF ls = <<>> THEN <<>>
    ELSE IF Strip(Head(ls)) = <<>> THEN CleanLines(Tail(ls))
    ELSE <<Strip(StripBullet(Head(ls)))>> \o CleanLines(Tail(ls))

postprocess(text) == CollapseSpaces(JoinLines(CleanLines(SplitLines(text))))
\* ------------------------------------------------------------------ inputs

\* Number of worker threads that serve /chat requests at the same time
NThreads == 2

\* Number of turns the CLI loop is followed for
MaxCliTurns == 2

Threads == 1..NThreads

\* How old are you?
Q_HOW_OLD == <<72, 111, 119, 32, 111, 108, 100, 32, 97, 114, 101, 32, 121, 111, 117, 63>>

\* Cześć, ile masz lat?
Q_PL_AGE == <<67, 122, 101, 347, 263, 44, 32, 105, 108, 101, 32, 109, 97, 115, 122, 32, 108, 97, 116, 63>>

\* what time is it
Q_TIME == <<119, 104, 97, 116, 32, 116, 105, 109, 101, 32, 105, 115, 32, 105, 116>>

\* hello
Q_HELLO == <<104, 101, 108, 108, 111>>

\* Hansı dillərdə danışırsan?
Q_AZ_LANGS == <<72, 97, 110, 115, 305, 32, 100, 105, 108, 108, 601, 114, 100, 601, 32, 100, 97, 110, 305, 351, 305, 114, 115, 97, 110, 63>>

\* The user texts of the requests
QUERIES == {Q_HOW_OLD, Q_PL_AGE, Q_TIME, Q_HELLO, Q_AZ_LANGS}

\* The lines typed at the CLI prompt: the user texts, an empty line and EXIT
CLI_LINES == QUERIES \cup {<<32>>, <<69, 88, 73, 84>>}

\* payload.history of a /chat request: the default of ChatIn, None
HISTORIES == {None}

\* The readings of the clock (datetime.now(TZ))
CLOCK ==
    {[year |-> 2026, month |-> 11, day |-> 1, hour |-> 7, minute |-> 5],
     [year |-> 2025, month |-> 12, day |-> 31, hour |-> 23, minute |-> 59]}

\* What the embedding service answers to the batch of the curated questions
INDEXES ==
    {<<<<1, 0, 0, 0>>, <<0, 1, 0, 0>>, <<0, 0, 0, 0>>, <<-1, 0, 0, 0>>, <<0, 0, 1, 0>>, <<1, 0, 0, 0>>>>,
     <<<<0, 1, 0, 0>>, <<1, 0, 0, 0>>, <<0, 0, 0, 0>>, <<0, 0, 1, 0>>, <<0, 0, 0, 1>>, <<0, -1, 0, 0>>>>}

\* What the embedding service answers to one user text.  Against the unit
\* vector <<1, 0, 0, 0>> the similarities are 37/50 = 0.74, 7398/9998 < 0.74,
\* 0 and 0 (a zero vector).
QUERY_VECTORS ==
    {<<37, 31, 13, 1>>, <<7398, 6724, 132, 0>>, <<0, 1, 0, 0>>, <<0, 0, 0, 0>>}

\* resp.choices[0].message.content of the generative model: "ok.", the empty
\* text, and a bulleted text "- a\n - b"
LLM_TEXTS == {<<111, 107, 46>>, <<>>, <<45, 32, 97, 10, 32, 45, 32, 98>>}

\* The failures of client.chat.completions.create and of reading its
\* result: the service is unreachable, content is None
LLM_ERRORS == {"APIConnectionError", "AttributeError"}

\* ------------------------------------------------------------------- state

VARIABLES
    mode,          \* how the module runs: "http" (uvicorn server:app) or "cli" (__main__)
    sem_vectors,   \* _sem_vectors: None, or the cached list of vectors
    history,       \* the history list of the CLI loop
    th,            \* per thread: the position and the locals of the request it serves
    builds_ok,     \* number of batch embedding calls of the index build that succeeded
    embed_ok,      \* whether any call of the embedding service has succeeded
    dl_text,       \* the argument of a direct call of detect_lang
    dl_out,        \* its result, "" before the call
    fn_arg,        \* the arguments of a direct call of route_intent, llm_fallback or postprocess
    fn_out         \* its result, None before the call

vars == <<mode, sem_vectors, history, th, builds_ok, embed_ok, dl_text, dl_out, fn_arg, fn_out>>

\* A thread that serves no request
Fresh ==
    [pc |-> "idle", q |-> <<>>, hist |-> None, now |-> None, lang |-> "",
     det |-> None, scores |-> None, sem |-> None, ret |-> None, exc |-> "",
     trace |-> <<>>, resp |-> ""]

\* Python truth of an Optional[str]: None and "" are false
Truthy(o) == o # None /\ o[1] # <<>>

\* The texts that reach answer.  The functions below hold, for the inputs of
\* the model, the values of the operators named in them, evaluated once.
TEXTS == QUERIES \cup { Strip(l) : l \in CLI_LINES }

LangMemo == [q \in TEXTS |-> detect_lang(q)]

HitsMemo == [q \in TEXTS |-> Hits(Lower(Strip(q)))]

ScoresMemo == [vec \in QUERY_VECTORS, idx \in INDEXES |-> Scores(vec, idx)]

PostMemo == [c \in LLM_TEXTS |-> postprocess(Strip(c))]

\* Whether route_intent reads the clock for this text
ReadsClock(q) ==
    LET hits == HitsMemo[q]
    IN  hits # {} /\ INTENTS[FirstHit(hits)].name \in {"today_date", "time_now"}

Init ==
    /\ mode \in {"http", "cli"}
    /\ sem_vectors = None
    /\ history = <<>>
    /\ th = [t \in Threads |-> Fresh]
    /\ builds_ok = 0
    /\ embed_ok = FALSE
    /\ dl_text = <<>>
    /\ dl_out = ""
    /\ fn_arg = <<>>
    /\ fn_out = None

\* chat_endpoint is entered with a payload
HttpReceive(t) ==
    /\ mode = "http"
    /\ th[t].pc = "idle"
    /\ \E m \in QUERIES, h \in HISTORIES :
           th' = [th EXCEPT ![t] = [Fresh EXCEPT !.pc = "answer", !.q = m, !.hist = h]]
    /\ UNCHANGED <<mode, sem_vectors, history, builds_ok, embed_ok, dl_text, dl_out, fn_arg, fn_out>>

\* The CLI loop reads a line: EOF ends it, an empty line is skipped, exit and
\* quit end it, any other line is answered
CliInput(t) ==
    /\ mode = "cli"
    /\ t = 1
    /\ th[t].pc = "idle"
    /\ \/ th' = [th EXCEPT ![t] = [Fresh EXCEPT !.pc = "exited"]]
       \/ \E line \in CLI_LINES :
            LET q == Strip(line)
            IN  IF q = <<>> THEN th' = [th EXCEPT ![t] = Fresh]
                ELSE IF Lower(q) \in {<<101, 120, 105, 116>>, <<113, 117, 105, 116>>}
                THEN th' = [th EXCEPT ![t] = [Fresh EXCEPT !.pc = "exited"]]
                ELSE /\ Len(history) < 2 * MaxCliTurns
                     /\ th' = [th EXCEPT ![t] =
                                  [Fresh EXCEPT !.pc = "answer", !.q = q, !.hist = Some(history)]]
    /\ UNCHANGED <<mode, sem_vectors, history, builds_ok, embed_ok, dl_text, dl_out, fn_arg, fn_out>>

\* Route without the early return of a matched intent: the semantic stage runs
\* although route_intent answered
Route_NoShortCircuit(t) ==
    /\ th[t].pc = "answer"
    /\ \E now \in CLOCK :
         LET q == th[t].q
             lang == LangMemo[q]
             det == RouteHits(HitsMemo[q], lang, now)
         IN  th' = [th EXCEPT ![t] =
                       [th[t] EXCEPT !.lang = lang, !.det = det, !.pc = "ensure",
                                     !.now = IF ReadsClock(q) THEN Some(now) ELSE None,
                                     !.trace = @ \o <<"detect_lang", "route_intent">>]]
    /\ UNCHANGED <<mode, sem_vectors, history, builds_ok, embed_ok, dl_text, dl_out, fn_arg, fn_out>>

\* Route with the semantic stage consulted before the matched intent is
\* returned, once the index is built
Route_SemanticFirst(t) ==
    /\ th[t].pc = "answer"
    /\ \E now \in CLOCK :
         LET q == th[t].q
             lang == LangMemo[q]
             det == RouteHits(HitsMemo[q], lang, now)
             seen == [th[t] EXCEPT !.lang = lang, !.det = det,
                                   !.now = IF ReadsClock(q) THEN Some(now) ELSE None,
                                   !.trace = @ \o <<"detect_lang", "route_intent">>]
         IN  th' = [th EXCEPT ![t] =
                       IF Truthy(det) /\ sem_vectors = None
                       THEN [seen EXCEPT !.pc = "return", !.ret = Some(<<det[1], TRUE, lang>>)]
                       ELSE [seen EXCEPT !.pc = "ensure"]]
    /\ UNCHANGED <<mode, sem_vectors, history, builds_ok, embed_ok, dl_text, dl_out, fn_arg, fn_out>>

\* answer: detect_lang, route_intent, and the return of a matched intent
Route(t) ==
    /\ th[t].pc = "answer"
    /\ \E now \in CLOCK :
         LET q == th[t].q
             lang == LangMemo[q]
             det == RouteHits(HitsMemo[q], lang, now)
             seen == [th[t] EXCEPT !.lang = lang, !.det = det,
                                   !.now = IF ReadsClock(q) THEN Some(now) ELSE None,
                                   !.trace = @ \o <<"detect_lang", "route_intent">>]
         IN  th' = [th EXCEPT ![t] =
                       IF Truthy(det)
                       THEN [seen EXCEPT !.pc = "return", !.ret = Some(<<det[1], TRUE, lang>>)]
                       ELSE [seen EXCEPT !.pc = "ensure"]]
    /\ UNCHANGED <<mode, sem_vectors, history, builds_ok, embed_ok, dl_text, dl_out, fn_arg, fn_out>>

\* semantic_answer enters ensure_semantic_index: if _sem_vectors is None
\* EnsureCheck without the test of the cache: every call builds
EnsureCheck_Always(t) ==
    /\ th[t].pc = "ensure"
    /\ th' = [th EXCEPT ![t].pc = "build",
                        ![t].trace = @ \o <<"semantic_answer">>]
    /\ UNCHANGED <<mode, sem_vectors, history, builds_ok, embed_ok, dl_text, dl_out, fn_arg, fn_out>>

EnsureCheck(t) ==
    /\ th[t].pc = "ensure"
    /\ th' = [th EXCEPT ![t].pc = IF sem_vectors = None THEN "build" ELSE "embed",
                        ![t].trace = @ \o <<"semantic_answer">>]
    /\ UNCHANGED <<mode, sem_vectors, history, builds_ok, embed_ok, dl_text, dl_out, fn_arg, fn_out>>

\* BuildRaise without the try/except around ensure_semantic_index: the failure
\* of the embedding service leaves answer
BuildRaise_Propagates(t) ==
    /\ th[t].pc = "build"
    /\ th' = [th EXCEPT ![t].pc = "return", ![t].exc = "APIConnectionError",
                        ![t].trace = @ \o <<"embed_index">>]
    /\ UNCHANGED <<mode, sem_vectors, history, builds_ok, embed_ok, dl_text, dl_out, fn_arg, fn_out>>

\* BuildRaise with vectors stored although the build failed
BuildRaise_StoresIndex(t) ==
    /\ th[t].pc = "build"
    /\ \E idx \in INDEXES : sem_vectors' = Some(idx)
    /\ th' = [th EXCEPT ![t].pc = "llm", ![t].sem = None,
                        ![t].trace = @ \o <<"embed_index">>]
    /\ UNCHANGED <<mode, history, builds_ok, embed_ok, dl_text, dl_out, fn_arg, fn_out>>

\* _sem_vectors = _embed(qs): the service fails and semantic_answer returns None
BuildRaise(t) ==
    /\ th[t].pc = "build"
    /\ th' = [th EXCEPT ![t].pc = "llm", ![t].sem = None,
                        ![t].trace = @ \o <<"embed_index">>]
    /\ UNCHANGED <<mode, sem_vectors, history, builds_ok, embed_ok, dl_text, dl_out, fn_arg, fn_out>>

\* _sem_vectors = _embed(qs): the service answers and the list is stored
BuildStore(t) ==
    /\ th[t].pc = "build"
    /\ \E idx \in INDEXES : sem_vectors' = Some(idx)
    /\ builds_ok' = builds_ok + 1
    /\ embed_ok' = TRUE
    /\ th' = [th EXCEPT ![t].pc = "embed", ![t].trace = @ \o <<"embed_index">>]
    /\ UNCHANGED <<mode, history, dl_text, dl_out, fn_arg, fn_out>>

\* vec = _embed([q])[0] fails and semantic_answer returns None
QueryRaise(t) ==
    /\ th[t].pc = "embed"
    /\ th' = [th EXCEPT ![t].pc = "llm", ![t].sem = None,
                        ![t].trace = @ \o <<"embed_query">>]
    /\ UNCHANGED <<mode, sem_vectors, history, builds_ok, embed_ok, dl_text, dl_out, fn_arg, fn_out>>

\* vec = _embed([q])[0] answers: the scores, the arg-max and the threshold,
\* and the return of answer on a semantic match
QueryScore(t) ==
    /\ th[t].pc = "embed"
    /\ \E vec \in QUERY_VECTORS :
         LET scores == ScoresMemo[vec, sem_vectors[1]]
             sem == SemanticPick(scores, th[t].lang)
             seen == [th[t] EXCEPT !.scores = Some(scores), !.sem = sem,
                                   !.trace = @ \o <<"embed_query">>]
         IN  th' = [th EXCEPT ![t] =
                       IF Truthy(sem)
                       THEN [seen EXCEPT !.pc = "return",
                                         !.ret = Some(<<sem[1], TRUE, th[t].lang>>)]
                       ELSE [seen EXCEPT !.pc = "llm"]]
    /\ embed_ok' = TRUE
    /\ UNCHANGED <<mode, sem_vectors, history, builds_ok, dl_text, dl_out, fn_arg, fn_out>>

\* llm_fallback raises: the exception leaves answer (the locals of
\* semantic_answer are gone by now)
LlmRaise(t) ==
    /\ th[t].pc = "llm"
    /\ \E e \in LLM_ERRORS :
         th' = [th EXCEPT ![t].pc = "return", ![t].exc = e, ![t].scores = None,
                          ![t].trace = @ \o <<"llm_fallback">>]
    /\ UNCHANGED <<mode, sem_vectors, history, builds_ok, embed_ok, dl_text, dl_out, fn_arg, fn_out>>

\* LlmReply with the generated reply flagged as matched
LlmReply_Matched(t) ==
    /\ th[t].pc = "llm"
    /\ \E content \in LLM_TEXTS :
         th' = [th EXCEPT ![t].pc = "return", ![t].scores = None,
                          ![t].ret = Some(<<PostMemo[content], TRUE, th[t].lang>>),
                          ![t].trace = @ \o <<"llm_fallback">>]
    /\ UNCHANGED <<mode, sem_vectors, history, builds_ok, embed_ok, dl_text, dl_out, fn_arg, fn_out>>

\* llm_fallback returns postprocess(content.strip()) and answer returns it
LlmReply(t) ==
    /\ th[t].pc = "llm"
    /\ \E content \in LLM_TEXTS :
         th' = [th EXCEPT ![t].pc = "return", ![t].scores = None,
                          ![t].ret = Some(<<PostMemo[content], FALSE, th[t].lang>>),
                          ![t].trace = @ \o <<"llm_fallback">>]
    /\ UNCHANGED <<mode, sem_vectors, history, builds_ok, embed_ok, dl_text, dl_out, fn_arg, fn_out>>

\* chat_endpoint returns ChatOut(reply, matched, lang) of the triple answer
\* returned, or the exception of answer leaves it to the framework; the worker
\* thread then serves the next request.  resp keeps which of the two happened.
HttpRespond(t) ==
    /\ mode = "http"
    /\ th[t].pc = "return"
    /\ th' = [th EXCEPT ![t] =
                 [Fresh EXCEPT !.resp = IF th[t].exc = "" THEN "ChatOut" ELSE "raise"]]
    /\ UNCHANGED <<mode, sem_vectors, history, builds_ok, embed_ok, dl_text, dl_out, fn_arg, fn_out>>

\* The CLI loop prints the reply and appends the two turns; an exception of
\* answer is not handled and ends the process
CliPrint(t) ==
    /\ mode = "cli"
    /\ th[t].pc = "return"
    /\ IF th[t].exc # ""
       THEN /\ th' = [th EXCEPT ![t] = [Fresh EXCEPT !.pc = "crashed", !.resp = "raise"]]
            /\ UNCHANGED history
       ELSE /\ th' = [th EXCEPT ![t] = [Fresh EXCEPT !.resp = "print"]]
            /\ history' = history \o <<[role |-> "user", content |-> th[t].q],
                                       [role |-> "assistant", content |-> th[t].ret[1][1]]>>
    /\ UNCHANGED <<mode, sem_vectors, builds_ok, embed_ok, dl_text, dl_out, fn_arg, fn_out>>

\* ------------------------------------------- direct calls of detect_lang

\* Number of pieces a text given to detect_lang is made of
MaxPieces == 3

\* The pieces: the stopwords de (az), ben (tr), o (pl), DE in capitals, a
\* Russian and a Ukrainian Cyrillic letter, schwa, g-breve, l-stroke, capital
\* dotted I, x, a space, a digit and a question mark
DL_PIECES ==
    {<<100, 101>>, <<98, 101, 110>>, <<111>>, <<68, 69>>, <<1103>>, <<1111>>,
     <<601>>, <<287>>, <<322>>, <<304>>, <<120>>, <<32>>, <<49>>, <<63>>}

RECURSIVE PieceTexts(_)
PieceTexts(n) ==
    IF n = 0 THEN {<<>>}
    ELSE LET shorter == PieceTexts(n - 1)
         IN  shorter \cup { p \o s : p \in DL_PIECES, s \in shorter }

InitDetect ==
    /\ mode = "call"
    /\ sem_vectors = None
    /\ history = <<>>
    /\ th = [t \in Threads |-> Fresh]
    /\ builds_ok = 0
    /\ embed_ok = FALSE
    /\ dl_text \in PieceTexts(MaxPieces)
    /\ dl_out = ""
    /\ fn_arg = <<>>
    /\ fn_out = None

DetectCall ==
    /\ dl_out = ""
    /\ dl_out' = detect_lang(dl_text)
    /\ UNCHANGED <<mode, sem_vectors, history, th, builds_ok, embed_ok, dl_text, fn_arg, fn_out>>

NextDetect == DetectCall

SpecDetect == InitDetect /\ [][NextDetect]_vars

\* ------------------------------------------------- route_intent called directly

MaxPhrases == 3

\* The phrases: "Where do you live " (where_live), "necə bir evdə "
\* (where_live_house), "stack " (programming_langs), "email "
\* (email_contact), "what time is it " (time_now) and "x"
RI_PHRASES ==
    {<<87, 104, 101, 114, 101, 32, 100, 111, 32, 121, 111, 117, 32, 108, 105, 118, 101, 32>>,
     <<110, 101, 99, 601, 32, 98, 105, 114, 32, 101, 118, 100, 601, 32>>,
     <<115, 116, 97, 99, 107, 32>>,
     <<101, 109, 97, 105, 108, 32>>,
     <<119, 104, 97, 116, 32, 116, 105, 109, 101, 32, 105, 115, 32, 105, 116, 32>>,
     <<120>>}

RECURSIVE PhraseTexts(_)
PhraseTexts(n) ==
    IF n = 0 THEN {<<>>}
    ELSE LET shorter == PhraseTexts(n - 1)
         IN  shorter \cup { p \o s : p \in RI_PHRASES, s \in shorter }

\* The rules that match each argument text, computed once per text
RiHitsMemo == [text \in PhraseTexts(MaxPhrases) |-> Hits(Lower(Strip(text)))]

InitRoute ==
    /\ mode = "route_intent"
    /\ sem_vectors = None
    /\ history = <<>>
    /\ th = [t \in Threads |-> Fresh]
    /\ builds_ok = 0
    /\ embed_ok = FALSE
    /\ dl_text = <<>>
    /\ dl_out = ""
    /\ \E text \in PhraseTexts(MaxPhrases), lang \in LANGS, now \in CLOCK :
           fn_arg = [text |-> text, lang |-> lang, now |-> now]
    /\ fn_out = None

RouteCall ==
    /\ mode = "route_intent"
    /\ fn_out = None
    /\ fn_out' = Some(RouteHits(RiHitsMemo[fn_arg.text], fn_arg.lang, fn_arg.now))
    /\ UNCHANGED <<mode, sem_vectors, history, th, builds_ok, embed_ok, dl_text, dl_out, fn_arg>>

NextRoute == RouteCall

SpecRoute == InitRoute /\ [][NextRoute]_vars

\* ------------------------------------------------- llm_fallback called directly

MaxHistory == 7

\* style_hint_for_lang: the instruction appended to the user text
style_hint_for_lang(lang) ==
      \* en: Answer in English in a natural, first-person voice. 1–3 sentences. No bullet points.
    CASE lang = "en" ->
        <<65, 110, 115, 119, 101, 114, 32, 105, 110, 32, 69, 110, 103, 108, 105, 115, 104,
        32, 105, 110, 32, 97, 32, 110, 97, 116, 117, 114, 97, 108, 44, 32, 102, 105, 114,
        115, 116, 45, 112, 101, 114, 115, 111, 110, 32, 118, 111, 105, 99, 101, 46, 32, 49,
        8211, 51, 32, 115, 101, 110, 116, 101, 110, 99, 101, 115, 46, 32, 78, 111, 32, 98,
        117, 108, 108, 101, 116, 32, 112, 111, 105, 110, 116, 115, 46>>
      \* ru: Ответь по-русски естественно, от первого лица. 1–3 предложения. Без списков.
      [] lang = "ru" ->
        <<1054, 1090, 1074, 1077, 1090, 1100, 32, 1087, 1086, 45, 1088, 1091, 1089, 1089,
        1082, 1080, 32, 1077, 1089, 1090, 1077, 1089, 1090, 1074, 1077, 1085, 1085, 1086,
        44, 32, 1086, 1090, 32, 1087, 1077, 1088, 1074, 1086, 1075, 1086, 32, 1083, 1080,
        1094, 1072, 46, 32, 49, 8211, 51, 32, 1087, 1088, 1077, 1076, 1083, 1086, 1078,
        1077, 1085, 1080, 1103, 46, 32, 1041, 1077, 1079, 32, 1089, 1087, 1080, 1089, 1082,
        1086, 1074, 46>>
      \* tr: Türkçe, doğal ve birinci tekil şahıs konuş. 1–3 cümle. Listeleme yok.
      [] lang = "tr" ->
        <<84, 252, 114, 107, 231, 101, 44, 32, 100, 111, 287, 97, 108, 32, 118, 101, 32, 98,
        105, 114, 105, 110, 99, 105, 32, 116, 101, 107, 105, 108, 32, 351, 97, 104, 305,
        115, 32, 107, 111, 110, 117, 351, 46, 32, 49, 8211, 51, 32, 99, 252, 109, 108, 101,
        46, 32, 76, 105, 115, 116, 101, 108, 101, 109, 101, 32, 121, 111, 107, 46>>
      \* pl: Odpowiadaj po polsku, naturalnie w pierwszej osobie. 1–3 zdania. Bez wypunktowań.
      [] lang = "pl" ->
        <<79, 100, 112, 111, 119, 105, 97, 100, 97, 106, 32, 112, 111, 32, 112, 111, 108,
        115, 107, 117, 44, 32, 110, 97, 116, 117, 114, 97, 108, 110, 105, 101, 32, 119, 32,
        112, 105, 101, 114, 119, 115, 122, 101, 106, 32, 111, 115, 111, 98, 105, 101, 46,
        32, 49, 8211, 51, 32, 122, 100, 97, 110, 105, 97, 46, 32, 66, 101, 122, 32, 119,
        121, 112, 117, 110, 107, 116, 111, 119, 97, 324, 46>>
      \* az and any other code: Cavabı Azərbaycan dilində, təbii və birinci şəxsdə ver. 1–3 cümlə. Siyahı istifadə etmə.
      [] OTHER ->
        <<67, 97, 118, 97, 98, 305, 32, 65, 122, 601, 114, 98, 97, 121, 99, 97, 110, 32, 100,
        105, 108, 105, 110, 100, 601, 44, 32, 116, 601, 98, 105, 105, 32, 118, 601, 32, 98,
        105, 114, 105, 110, 99, 105, 32, 351, 601, 120, 115, 100, 601, 32, 118, 101, 114,
        46, 32, 49, 8211, 51, 32, 99, 252, 109, 108, 601, 46, 32, 83, 105, 121, 97, 104,
        305, 32, 105, 115, 116, 105, 102, 97, 100, 601, 32, 101, 116, 109, 601, 46>>

\* build_system_prompt(): the JSON text of the persona data, the same in every
\* call; its fields are left out here
build_system_prompt == <<123, 125>>

\* turn.get(key, default)
TurnGet(turn, key, default) == IF key \in DOMAIN turn THEN turn[key] ELSE default

\* history[:6]
HistoryWindow_First(hist) == SubSeq(hist, 1, IF Len(hist) < 6 THEN Len(hist) ELSE 6)

\* history[-6:]
HistoryWindow(hist) == SubSeq(hist, IF Len(hist) < 6 THEN 1 ELSE Len(hist) - 5, Len(hist))

\* The messages argument of client.chat.completions.create in llm_fallback
llm_fallback_messages(user_text, lang, hist) ==
    LET messages == <<[role |-> "system", content |-> build_system_prompt]>>
        turns == IF Truthy(hist) THEN HistoryWindow(hist[1]) ELSE <<>>
        prior == [i \in 1..Len(turns) |->
                     [role |-> TurnGet(turns[i], "role", "user"),
                      content |-> TurnGet(turns[i], "content", <<>>)]]
        user_payload == user_text \o <<10, 10, 45, 45, 45, 10>> \o style_hint_for_lang(lang)
    IN  messages \o prior \o <<[role |-> "user", content |-> user_payload]>>

\* The entries of a supplied history: a user turn "x", an assistant turn "y"
\* and a turn "z" without a role
TURNS ==
    {[role |-> "user", content |-> <<120>>],
     [role |-> "assistant", content |-> <<121>>],
     [content |-> <<122>>]}

RECURSIVE TurnSeqs(_)
TurnSeqs(n) ==
    IF n = 0 THEN {<<>>}
    ELSE LET shorter == TurnSeqs(n - 1)
         IN  shorter \cup { <<e>> \o s : e \in TURNS, s \in shorter }

InitLlm ==
    /\ mode = "llm_fallback"
    /\ sem_vectors = None
    /\ history = <<>>
    /\ th = [t \in Threads |-> Fresh]
    /\ builds_ok = 0
    /\ embed_ok = FALSE
    /\ dl_text = <<>>
    /\ dl_out = ""
    /\ \E hist \in {None} \cup { Some(s) : s \in TurnSeqs(MaxHistory) }, lang \in LANGS :
           fn_arg = [user_text |-> Q_HELLO, lang |-> lang, history |-> hist]
    /\ fn_out = None

LlmCall ==
    /\ mode = "llm_fallback"
    /\ fn_out = None
    /\ fn_out' = Some(llm_fallback_messages(fn_arg.user_text, fn_arg.lang, fn_arg.history))
    /\ UNCHANGED <<mode, sem_vectors, history, th, builds_ok, embed_ok, dl_text, dl_out, fn_arg>>

NextLlm == LlmCall

SpecLlm == InitLlm /\ [][NextLlm]_vars

\* -------------------------------------------------- postprocess called directly

MaxRaw == 4

\* The characters of a raw reply: dash, bullet, space, line feed and a
RAW_CHARS == {45, 8226, 32, 10, 97}

RECURSIVE RawTexts(_)
RawTexts(n) ==
    IF n = 0 THEN {<<>>}
    ELSE LET shorter == RawTexts(n - 1)
         IN  shorter \cup { <<c>> \o s : c \in RAW_CHARS, s \in shorter }

InitPost ==
    /\ mode = "postprocess"
    /\ sem_vectors = None
    /\ history = <<>>
    /\ th = [t \in Threads |-> Fresh]
    /\ builds_ok = 0
    /\ embed_ok = FALSE
    /\ dl_text = <<>>
    /\ dl_out = ""
    /\ fn_arg \in RawTexts(MaxRaw)
    /\ fn_out = None

PostCall ==
    /\ mode = "postprocess"
    /\ fn_out = None
    /\ fn_out' = Some(postprocess(fn_arg))
    /\ UNCHANGED <<mode, sem_vectors, history, th, builds_ok, embed_ok, dl_text, dl_out, fn_arg>>

NextPost == PostCall

SpecPost == InitPost /\ [][NextPost]_vars

\* ---------------------------------------------------------------- behaviour

Next ==
    \E t \in Threads :
        \/ HttpReceive(t)
        \/ CliInput(t)
        \/ Route(t)
        \/ EnsureCheck(t)
        \/ BuildRaise(t)
        \/ BuildStore(t)
        \/ QueryRaise(t)
        \/ QueryScore(t)
        \/ LlmRaise(t)
        \/ LlmReply(t)
        \/ HttpRespond(t)
        \/ CliPrint(t)

Spec == Init /\ [][Next]_vars

\* ------------------------------------------------------------------ claims

Member(x, s) == \E i \in 1..Len(s) : s[i] = x

Last(s) == s[Len(s)]

\* The position of a stage in the pipeline of answer
StageRank(s) ==
    CASE s = "detect_lang" -> 1
      [] s = "route_intent" -> 2
      [] s = "semantic_answer" -> 3
      [] s = "embed_index" -> 4
      [] s = "embed_query" -> 5
      [] s = "llm_fallback" -> 6

\* C1: the stages of answer run in the order detect language, intent match,
\* semantic match, generative fallback; the embedding service is called only
\* after the intent matcher returned none, the generative model only after
\* the intent and the semantic matcher both returned none, and the reply
\* returned is that of the first stage with a result.
C1_StagesInOrderShortCircuit ==
    \A t \in Threads :
        LET r == th[t]
        IN  /\ \A i, j \in 1..Len(r.trace) :
                   i < j => StageRank(r.trace[i]) < StageRank(r.trace[j])
            /\ r.trace # <<>> =>
                   Len(r.trace) >= 2 /\ r.trace[1] = "detect_lang" /\ r.trace[2] = "route_intent"
            /\ (\E i \in 1..Len(r.trace) :
                    r.trace[i] \in {"semantic_answer", "embed_index", "embed_query"})
                   => r.det = None
            /\ Member("llm_fallback", r.trace) =>
                   r.det = None /\ r.sem = None /\ Member("semantic_answer", r.trace)
            /\ r.ret # None =>
                   IF r.det # None
                   THEN r.ret[1][1] = r.det[1] /\ Last(r.trace) = "route_intent"
                   ELSE IF r.sem # None
                   THEN r.ret[1][1] = r.sem[1] /\ Last(r.trace) = "embed_query"
                   ELSE Last(r.trace) = "llm_fallback"

\* A request answered by the semantic stage after the intent matcher returned none
C1_Witness ==
    \E t \in Threads :
        /\ th[t].pc = "return"
        /\ th[t].det = None
        /\ th[t].sem # None
        /\ th[t].ret = Some(<<th[t].sem[1], TRUE, th[t].lang>>)

\* C2: in every RouterResult, matched is true exactly when the reply came
\* from the intent matcher or the semantic matcher, and false exactly when it
\* came from the generative fallback.
C2_MatchedIffNotGenerated ==
    \A t \in Threads :
        th[t].ret # None =>
            LET matched == th[t].ret[1][2]
                producer == Last(th[t].trace)
            IN  /\ matched <=> producer \in {"route_intent", "embed_query"}
                /\ ~matched <=> producer = "llm_fallback"

\* One request returned a generated reply while another returned a semantic match
C2_Witness ==
    \E t, u \in Threads :
        /\ th[t].ret # None /\ ~th[t].ret[1][2] /\ Last(th[t].trace) = "llm_fallback"
        /\ th[u].ret # None /\ th[u].ret[1][2] /\ Last(th[u].trace) = "embed_query"

\* C3: as long as every call of the embedding service has failed, the
\* semantic stage returns none and nothing else: the index stays unbuilt, no
\* exception of it leaves answer, and a request no intent rule matches goes on
\* to the generative fallback and returns its reply with matched = false.
C3_EmbeddingFailureDegrades ==
    ~embed_ok =>
        /\ sem_vectors = None
        /\ \A t \in Threads :
               LET r == th[t]
               IN  /\ r.sem = None /\ r.scores = None
                   /\ r.exc # "" => Last(r.trace) = "llm_fallback"
                   /\ (r.trace # <<>> /\ Last(r.trace) \in {"embed_index", "embed_query"})
                          => r.pc = "llm"
                   /\ (r.pc = "return" /\ r.det = None) =>
                          /\ Member("llm_fallback", r.trace)
                          /\ r.ret # None => ~r.ret[1][2]

\* The second request of a CLI session whose embedding calls all failed is
\* answered by the generative fallback
C3_Witness ==
    /\ ~embed_ok
    /\ Len(history) >= 2
    /\ \E t \in Threads :
           /\ th[t].pc = "return"
           /\ Member("embed_index", th[t].trace)
           /\ th[t].ret # None
           /\ ~th[t].ret[1][2]

\* C4: a failure of the generative stage does not crash the request loop of
\* the caller (the /chat handler, the CLI loop): after the failure reached
\* the caller, the caller is back at its next request.
C4_CallerLoopSurvives ==
    \A t \in Threads : th[t].resp = "raise" => th[t].pc = "idle"

\* C5: a failed generation (the service is unreachable, or the response is
\* empty or malformed) never ends as a normal result: answer returns no
\* triple with matched = false whose reply is empty.
C5_FailedGenerationIsAnError ==
    \A t \in Threads :
        (th[t].ret # None /\ ~th[t].ret[1][2]) => th[t].ret[1][1] # <<>>

\* C6: however the requests interleave, the curated questions are embedded
\* by one batch call: no second build of the index succeeds.
C6_OneBuildBatch == builds_ok <= 1

\* The score is at least 0.74
AtLeastThreshold(s) == 100 * s.n >= 74 * s.d

\* No score of sc is greater than sc[i]
IsMaxAt(sc, i) == \A k \in 1..Len(sc) : sc[k].n * sc[i].d <= sc[i].n * sc[k].d

\* C7: the threshold is an inclusive lower bound: when the best similarity
\* is 0.74 or more, semantic_answer returns the answer of an arg-max entry in
\* the detected language and answer returns it as matched; when it is below
\* 0.74, semantic_answer returns none and answer goes on to the generative
\* fallback.
C7_ThresholdInclusive ==
    \A t \in Threads :
        (th[t].scores # None /\ th[t].scores[1] # <<>>) =>
            LET r == th[t]
                sc == r.scores[1]
            IN  \E i \in 1..Len(sc) :
                    /\ IsMaxAt(sc, i)
                    /\ IF AtLeastThreshold(sc[i])
                       THEN /\ r.sem = Some(QaAnswer(i, r.lang))
                            /\ r.pc = "return"
                            /\ r.ret = Some(<<QaAnswer(i, r.lang), TRUE, r.lang>>)
                       ELSE r.sem = None /\ r.pc = "llm"

\* One request whose best score is exactly 0.74 got the semantic answer while
\* another whose best score is 7398/9998 fell through
C7_Witness ==
    \E t, u \in Threads :
        /\ th[t].scores # None
        /\ \E i \in 1..Len(th[t].scores[1]) :
               /\ IsMaxAt(th[t].scores[1], i)
               /\ 100 * th[t].scores[1][i].n = 74 * th[t].scores[1][i].d
        /\ th[t].sem # None
        /\ th[u].scores # None
        /\ \E i \in 1..Len(th[u].scores[1]) :
               /\ IsMaxAt(th[u].scores[1], i)
               /\ th[u].scores[1][i] = Frac(7398, 9998)
        /\ th[u].pc = "llm"

\* C8: for a text that an intent rule matches, the result of answer is the
\* response of the first matching rule in the detected language, matched =
\* true, whatever the embedding and the generative service do, and neither
\* is called; only the date and time responses depend on the clock.
C8_IntentIndependentOfServices ==
    \A t \in Threads :
        (th[t].trace # <<>> /\ HitsMemo[th[t].q] # {}) =>
            LET r == th[t]
                lang == LangMemo[r.q]
                name == INTENTS[FirstHit(HitsMemo[r.q])].name
            IN  /\ r.pc = "return"
                /\ r.exc = ""
                /\ r.trace = <<"detect_lang", "route_intent">>
                /\ r.ret # None
                /\ r.ret[1][2] = TRUE
                /\ r.ret[1][3] = lang
                /\ IF name \in {"today_date", "time_now"}
                   THEN r.now # None /\ r.ret[1][1] = Respond(name, lang, r.now[1])
                   ELSE \A now \in CLOCK : r.ret[1][1] = Respond(name, lang, now)

\* An intent-matched request returned while the index was built and another
\* request was at the generative stage
C8_Witness ==
    \E t, u \in Threads :
        /\ th[t].pc = "return"
        /\ HitsMemo[th[t].q] # {}
        /\ th[t].ret # None
        /\ sem_vectors # None
        /\ th[u].pc = "llm"

\* A letter of the Cyrillic script (U+0400..U+052F without the signs
\* U+0482..U+0489)
IsCyrillicLetter(c) == c \in 1024..1153 \/ c \in 1162..1327

\* C9: for every input with at least one Cyrillic letter, detect_lang
\* returns ru.
C9_CyrillicGivesRu ==
    (dl_out # "" /\ \E i \in 1..Len(dl_text) : IsCyrillicLetter(dl_text[i]))
        => dl_out = "ru"

\* The letter runs of the lowered input
C10_Tokens == FindAllRuns(IsTokenLetter, Lower(Strip(dl_text)))

\* C10: for an input without Cyrillic letters the first hit decides, in the
\* order: schwa az, Turkish letter tr, Polish diacritic pl, then a token in
\* the Azerbaijani, the Turkish, the Polish stopwords, else en.
C10_FirstHitPriority ==
    (dl_out # "" /\ ~\E i \in 1..Len(dl_text) : IsCyrillicLetter(dl_text[i])) =>
        dl_out =
            IF \E i \in 1..Len(dl_text) : dl_text[i] \in {601, 399} THEN "az"
            ELSE IF \E i \in 1..Len(dl_text) : dl_text[i] \in {305, 304, 287, 286} THEN "tr"
            ELSE IF \E i \in 1..Len(dl_text) : IsPlLetter(dl_text[i]) THEN "pl"
            ELSE IF C10_Tokens \cap AZ_STOPWORDS # {} THEN "az"
            ELSE IF C10_Tokens \cap TR_STOPWORDS # {} THEN "tr"
            ELSE IF C10_Tokens \cap PL_STOPWORDS # {} THEN "pl"
            ELSE "en"

\* An input with a schwa and a Turkish letter was detected as az
C10_Witness ==
    /\ dl_out = "az"
    /\ \E i \in 1..Len(dl_text) : dl_text[i] = 601
    /\ \E i \in 1..Len(dl_text) : dl_text[i] = 287

\* A letter of the Latin, Greek or Cyrillic script
IsLetter(c) ==
    \/ c \in 65..90 \/ c \in 97..122
    \/ (c \in 192..687 /\ c \notin {215, 247})
    \/ c \in 880..1327

\* C11: detect_lang is total: every call returns one of az, tr, pl, ru, en,
\* and for an input without any letter (empty, digits, punctuation,
\* whitespace) it returns en.
C11_TotalDefaultEn ==
    dl_out # "" =>
        /\ dl_out \in {"az", "tr", "pl", "ru", "en"}
        /\ (\A i \in 1..Len(dl_text) : ~IsLetter(dl_text[i])) => dl_out = "en"

\* A text of a digit, a space and a question mark was detected as en
C11_Witness ==
    /\ dl_out = "en"
    /\ Len(dl_text) = 3
    /\ \A i \in 1..Len(dl_text) : ~IsLetter(dl_text[i])
    /\ \E i \in 1..Len(dl_text) : dl_text[i] = 49
    /\ \E i \in 1..Len(dl_text) : dl_text[i] = 63
    /\ \E i \in 1..Len(dl_text) : dl_text[i] = 32

\* C12: for the input "Cześć, ile masz lat?" answer detects pl, the intent
\* matcher matches the age rule, and the reply is the Polish age response
\* with the configured age and birthday.
C12_PolishAgeQuestion ==
    \A t \in Threads :
        (th[t].q = Q_PL_AGE /\ th[t].trace # <<>>) =>
            /\ th[t].lang = "pl"
            /\ th[t].det = Some(RESP_age.pl)
            /\ th[t].ret = Some(<<RESP_age.pl, TRUE, "pl">>)

\* The rules whose pattern matches the trimmed, lowercased argument
C13_Matching == RiHitsMemo[fn_arg.text]

\* C13 as amended: route_intent returns the response of the lowest-positioned
\* rule whose pattern matches the trimmed, lowercased text, none if no rule
\* matches; for an input that matches the housing rule and the where-do-you-
\* live rule and no rule before them, the housing response is returned.
C13_FirstMatchWins ==
    (mode = "route_intent" /\ fn_out # None) =>
        /\ C13_Matching = {} => fn_out[1] = None
        /\ \A n \in C13_Matching :
               (\A m \in C13_Matching : n <= m) =>
                   fn_out[1] = Some(Respond(INTENTS[n].name, fn_arg.lang, fn_arg.now))
        /\ ({3, 4} \subseteq C13_Matching /\ C13_Matching \cap {1, 2} = {}) =>
               fn_out[1] = Some(RESP_where_live_house[fn_arg.lang])

\* An input matching the housing rule and the where-do-you-live rule got the
\* housing response
C13_Witness ==
    /\ mode = "route_intent"
    /\ fn_out # None
    /\ C13_Matching = {3, 4}
    /\ fn_out[1] = Some(RESP_where_live_house[fn_arg.lang])

\* C13 as stated: every input matching both the housing rule and the
\* where-do-you-live rule gets the housing response.
C13_HousingAlwaysWins ==
    (mode = "route_intent" /\ fn_out # None /\ {3, 4} \subseteq C13_Matching) =>
        fn_out[1] = Some(RESP_where_live_house[fn_arg.lang])

\* C14: over the sequential answer calls of one process (the CLI loop) the
\* index is built at most once: after a successful build no later call
\* reaches the build batch again, and the cached vectors never change.
C14_BuiltAtMostOnce ==
    /\ [](mode = "cli" => builds_ok <= 1)
    /\ [][(mode = "cli" /\ sem_vectors # None) =>
              /\ sem_vectors' = sem_vectors
              /\ builds_ok' = builds_ok
              /\ \A t \in Threads : th'[t].pc # "build"]_vars

\* A later call of the CLI session scored its query against the index that an
\* earlier call built
C14_Witness ==
    /\ mode = "cli"
    /\ builds_ok = 1
    /\ Len(history) >= 2
    /\ th[1].pc = "return"
    /\ th[1].scores # None
    /\ Member("embed_query", th[1].trace)
    /\ ~Member("embed_index", th[1].trace)

\* The step of thread t is a failed index build
C17_BuildFails(t) == th[t].pc = "build" /\ th'[t].pc = "llm"

\* C17: a failed index build leaves the cache as it was, so that while the
\* cache is unset every semantic_answer call attempts the build again, and a
\* later call can build the index and match.
C17_FailedBuildLeavesCacheUnset ==
    [][\A t \in Threads :
           /\ C17_BuildFails(t) => sem_vectors' = sem_vectors /\ builds_ok' = builds_ok
           /\ (sem_vectors = None /\ th[t].pc = "ensure" /\ th'[t].pc # "ensure")
                  => th'[t].pc = "build"]_vars

\* The second call of a CLI session built the index and returned a semantic
\* match, after the build of the first call ("hello") had failed
C17_Witness ==
    /\ mode = "cli"
    /\ Len(history) = 2
    /\ history[1].content = Q_HELLO
    /\ builds_ok = 1
    /\ th[1].pc = "return"
    /\ Member("embed_index", th[1].trace)
    /\ th[1].sem # None
    /\ th[1].ret = Some(<<th[1].sem[1], TRUE, th[1].lang>>)

\* The history supplied to llm_fallback, empty when there is none
C15_History == IF fn_arg.history = None THEN <<>> ELSE fn_arg.history[1]

\* C15: the messages sent are one system message, then the last
\* min(6, len(history)) entries of the history in their order, then one user
\* message with the user text, the separator and the style hint of the
\* language; earlier entries are not sent.
C15_MessageList ==
    (mode = "llm_fallback" /\ fn_out # None) =>
        LET msgs == fn_out[1]
            h == C15_History
            k == IF Len(h) < 6 THEN Len(h) ELSE 6
        IN  /\ Len(msgs) = k + 2
            /\ msgs[1].role = "system"
            /\ \A j \in 1..k :
                   LET e == h[Len(h) - k + j]
                   IN  /\ msgs[1 + j].content = e.content
                       /\ msgs[1 + j].role = IF "role" \in DOMAIN e THEN e.role ELSE "user"
            /\ msgs[k + 2].role = "user"
            /\ msgs[k + 2].content =
                   fn_arg.user_text \o <<10, 10, 45, 45, 45, 10>> \o style_hint_for_lang(fn_arg.lang)

\* A history of seven entries whose first entry differs from the second was
\* sent without its first entry
C15_Witness ==
    /\ mode = "llm_fallback"
    /\ fn_out # None
    /\ Len(C15_History) = 7
    /\ C15_History[1] # C15_History[2]
    /\ Len(fn_out[1]) = 8
    /\ fn_out[1][2].content = C15_History[2].content

\* Position i of t is the first character of its line that is not whitespace
C16_LeadsLine(t, i) ==
    \A j \in 1..(i - 1) :
        (\A k \in j..(i - 1) : ~IsLineBreak(t[k])) => IsSpace(t[j])

\* C16: postprocess returns one paragraph, without line breaks and without a
\* run of two or more whitespace characters, in which the leading bullet
\* marker of every source line is stripped: when the only bullet characters
\* of the raw reply are markers leading their lines, none is left.
C16_NoBulletSurvives ==
    (mode = "postprocess" /\ fn_out # None) =>
        LET out == fn_out[1]
        IN  /\ \A i \in 1..Len(out) : ~IsLineBreak(out[i])
            /\ \A i \in 1..(Len(out) - 1) : ~(IsSpace(out[i]) /\ IsSpace(out[i + 1]))
            /\ (\A i \in 1..Len(fn_arg) : IsBullet(fn_arg[i]) => C16_LeadsLine(fn_arg, i))
                   => \A i \in 1..Len(out) : ~IsBullet(out[i])
====
